---- MODULE Spec2Model ----
(***************************************************************************)
(* A model of blc-perf-analyzer: the perf-script parser, the frame        *)
(* classifier, time windowing, the per-window aggregation and pattern      *)
(* detection, the summary, and the command line with its validation,       *)
(* capture and report generation.                                          *)
(*                                                                         *)
(* Text is kept as TLA+ strings and the three regular expressions of       *)
(* ParsePerfScript are matched character by character.  The input of the   *)
(* parser is the sequence of lines bufio.Scanner (ScanLines) delivers; a   *)
(* line is a record [text, pad] whose length is Len(text) + pad, so that a *)
(* line longer than the scanner's buffer can be written down.              *)
(* Timestamps and window sizes are exact numbers counted in tenths of a    *)
(* second; float64 rounding is not modelled.                               *)
(***************************************************************************)
EXTENDS Integers, Sequences, FiniteSets, TLC

VARIABLES
    mode,             \* which entry point this behaviour exercises
    pc,               \* position inside the running function
    input,            \* ParsePerfScript: the lines of `content`
    pos,              \* ParsePerfScript: index of the next line to scan
    currentSample,    \* ParsePerfScript: <<>> (nil) or <<the open sample>>
    samples,          \* ParsePerfScript: the samples flushed so far
    result,           \* ParsePerfScript: the returned (samples, err)
    frame,            \* ClassifyFrame: the frame handed in
    class,            \* ClassifyFrame: the returned triple
    hmSamples,        \* GenerateHeatmap: its `samples` argument
    windowSize,       \* GenerateHeatmap: its `windowSize` argument
    windows,          \* GenerateHeatmap: what PartitionByTime returned
    timeWindowsData,  \* GenerateHeatmap: the aggregates built so far
    hmErr,            \* GenerateHeatmap: the error returned, "" for none
    patterns,         \* detectPatterns: <<>> or <<the report returned>>
    files,            \* GenerateHeatmap: the state of its three output files
    report,           \* GenerateReport: its arguments, locals and outcome
    capture,          \* Capture: its configuration, locals and outcome
    flags             \* rootCmd: the command line flags and what validation said

parseVars == <<input, pos, currentSample, samples, result>>
classVars == <<frame, class>>
heatVars == <<hmSamples, windowSize, windows, timeWindowsData, hmErr,
              patterns, files>>
orchVars == <<report, capture, flags>>
vars == <<mode, pc, parseVars, classVars, heatVars, orchVars>>

----------------------------------------------------------------------------
(* Bounds of the model *)

MaxLines == 4         \* lines of an input text
MaxSamples == 3       \* samples handed to GenerateHeatmap
MaxTime == 2          \* largest timestamp of such a sample
MaxWindowSize == 2    \* largest window size
MaxDetectWindows == 2 \* aggregates handed to detectPatterns directly
MaxDetectCount == 3   \* largest sample count of such an aggregate
MaxReportSamples == 2 \* samples parsed from perf script in GenerateReport
MaxDelay == 5         \* largest DelayStart of a capture, in seconds
MaxDuration == 1      \* largest Duration of a capture, in seconds
MaxFlagValue == 2     \* largest value given to a numeric flag
MaxSummarySamples == 3 \* samples handed to parsePerfReport

----------------------------------------------------------------------------
(* Characters and strings *)

Space == {" ", "\t", "\n", "\f", "\r"}
Digit == {"0", "1", "2", "3", "4", "5", "6", "7", "8", "9"}
HexDigit == Digit \cup {"a", "b", "c", "d", "e", "f", "A", "B", "C", "D", "E", "F"}

Char(s, i) == IF i >= 1 /\ i <= Len(s) THEN SubSeq(s, i, i) ELSE ""

\* First index >= i whose character is outside cls (Len(s)+1 when none).
RECURSIVE SkipWhile(_, _, _)
SkipWhile(s, i, cls) ==
    IF i <= Len(s) /\ Char(s, i) \in cls THEN SkipWhile(s, i + 1, cls) ELSE i

\* First index >= i whose character is inside cls (Len(s)+1 when none).
RECURSIVE SkipUntil(_, _, _)
SkipUntil(s, i, cls) ==
    IF i <= Len(s) /\ Char(s, i) \notin cls THEN SkipUntil(s, i + 1, cls) ELSE i

\* Last index in lo..hi holding character c, 0 when none.
RECURSIVE LastIndexIn(_, _, _, _)
LastIndexIn(s, c, lo, hi) ==
    IF hi < lo THEN 0
    ELSE IF Char(s, hi) = c THEN hi ELSE LastIndexIn(s, c, lo, hi - 1)

HasPrefix(s, p) == Len(s) >= Len(p) /\ SubSeq(s, 1, Len(p)) = p
HasSuffix(s, p) == Len(s) >= Len(p) /\ SubSeq(s, Len(s) - Len(p) + 1, Len(s)) = p
Contains(s, sub) ==
    \E i \in 1..(Len(s) - Len(sub) + 1) : SubSeq(s, i, i + Len(sub) - 1) = sub

RECURSIVE TrimRight(_)
TrimRight(s) ==
    IF Len(s) > 0 /\ Char(s, Len(s)) \in Space
    THEN TrimRight(SubSeq(s, 1, Len(s) - 1)) ELSE s

TrimSpace(s) == TrimRight(SubSeq(s, SkipWhile(s, 1, Space), Len(s)))

LowerOf(c) ==
    CASE c = "A" -> "a" [] c = "B" -> "b" [] c = "C" -> "c" [] c = "D" -> "d"
      [] c = "E" -> "e" [] c = "F" -> "f" [] c = "G" -> "g" [] c = "H" -> "h"
      [] c = "I" -> "i" [] c = "J" -> "j" [] c = "K" -> "k" [] c = "L" -> "l"
      [] c = "M" -> "m" [] c = "N" -> "n" [] c = "O" -> "o" [] c = "P" -> "p"
      [] c = "Q" -> "q" [] c = "R" -> "r" [] c = "S" -> "s" [] c = "T" -> "t"
      [] c = "U" -> "u" [] c = "V" -> "v" [] c = "W" -> "w" [] c = "X" -> "x"
      [] c = "Y" -> "y" [] c = "Z" -> "z" [] OTHER -> c

RECURSIVE ToLower(_)
ToLower(s) ==
    IF Len(s) = 0 THEN s
    ELSE LowerOf(Char(s, 1)) \o ToLower(SubSeq(s, 2, Len(s)))

DigitVal(c) ==
    CASE c = "0" -> 0 [] c = "1" -> 1 [] c = "2" -> 2 [] c = "3" -> 3
      [] c = "4" -> 4 [] c = "5" -> 5 [] c = "6" -> 6 [] c = "7" -> 7
      [] c = "8" -> 8 [] c = "9" -> 9

\* strconv.Atoi on a string of decimal digits (the header patterns hand it
\* nothing else).  The numerals of the bounded inputs fit the int type.
RECURSIVE Atoi(_)
Atoi(s) ==
    IF Len(s) = 0 THEN 0
    ELSE Atoi(SubSeq(s, 1, Len(s) - 1)) * 10 + DigitVal(Char(s, Len(s)))

\* strconv.ParseFloat on <digits>.<digit>: the value in tenths of a second.
ParseFloat(s) ==
    LET dot == SkipUntil(s, 1, {"."})
    IN  Atoi(SubSeq(s, 1, dot - 1)) * 10 + Atoi(SubSeq(s, dot + 1, Len(s)))

----------------------------------------------------------------------------
(* The frame classifier *)

FrameTypeKernelCore == "kernel_core"
FrameTypeKernelDriver == "kernel_driver"
FrameTypeLibC == "libc"
FrameTypeLibPthread == "libpthread"
FrameTypeLibMySQL == "libmysql"
FrameTypeApplication == "application"
FrameTypeUnknown == "unknown"

Triple(t, k, u) == [Type |-> t, IsKernel |-> k, IsUserland |-> u]

\* The conditions of ClassifyFrame, on the lower-cased module and symbol.
RuleKernelCore(module) ==
    \/ Contains(module, "kernel.kallsyms")
    \/ Contains(module, "[kernel")
    \/ Contains(module, "vmlinux")

RuleKernelDriver(module) == HasPrefix(module, "[") /\ HasSuffix(module, "]")

RuleLibC_AnyLibc(module) == Contains(module, "libc")
RuleLibC(module) ==
    /\ Contains(module, "libc")
    /\ (Contains(module, ".so") \/ Contains(module, "libc-"))

RuleLibPthread_FileName(module) == HasSuffix(module, "libpthread.so")
RuleLibPthread(module) == Contains(module, "libpthread")

RuleLibMySQL(module, symbol) ==
    \/ Contains(module, "mysql")
    \/ Contains(module, "mariadb")
    \/ Contains(symbol, "mysql")
    \/ Contains(symbol, "maria")

RuleApplication(module) == ~Contains(module, ".so") /\ ~HasPrefix(module, "[")

RuleSharedObject(module) == Contains(module, ".so")

\* ClassifyFrame: the rules in the order of the code, first match wins.
ClassifyFrame(f) ==
    LET module == ToLower(f.Module)
        symbol == ToLower(f.Symbol)
    IN  IF RuleKernelCore(module) THEN Triple(FrameTypeKernelCore, TRUE, FALSE)
        ELSE IF RuleKernelDriver(module) THEN Triple(FrameTypeKernelDriver, TRUE, FALSE)
        ELSE IF RuleLibC(module) THEN Triple(FrameTypeLibC, FALSE, TRUE)
        ELSE IF RuleLibPthread(module) THEN Triple(FrameTypeLibPthread, FALSE, TRUE)
        ELSE IF RuleLibMySQL(module, symbol) THEN Triple(FrameTypeLibMySQL, FALSE, TRUE)
        ELSE IF RuleApplication(module) THEN Triple(FrameTypeApplication, FALSE, TRUE)
        ELSE IF RuleSharedObject(module) THEN Triple(FrameTypeUnknown, FALSE, TRUE)
        ELSE Triple(FrameTypeUnknown, FALSE, FALSE)

----------------------------------------------------------------------------
(* The three patterns of ParsePerfScript *)

\* A match is [ok |-> TRUE, m |-> the groups]; m[1] is the whole match (Go's
\* matches[0]) and m[i + 1] is Go's matches[i].
NoMatch == [ok |-> FALSE]

\* headerRegex1: ^\s*(\S+)\s+(\d+)/(\d+)\s+\[(\d+)\]\s+(\d+\.\d+):\s+\d+\s+(\S+):
\* Every greedy run is followed by a character outside its class, so the
\* leftmost-first match is the one found by taking each run whole; (\S+):
\* ends at the last colon of its run.
HeaderRegex1(s) ==
    LET p1  == SkipWhile(s, 1, Space)
        p2  == SkipUntil(s, p1, Space)
        p3  == SkipWhile(s, p2, Space)
        p4  == SkipWhile(s, p3, Digit)
        p5  == SkipWhile(s, p4 + 1, Digit)
        p6  == SkipWhile(s, p5, Space)
        p7  == SkipWhile(s, p6 + 1, Digit)
        p8  == SkipWhile(s, p7 + 1, Space)
        p9  == SkipWhile(s, p8, Digit)
        p10 == SkipWhile(s, p9 + 1, Digit)
        p11 == SkipWhile(s, p10 + 1, Space)
        p12 == SkipWhile(s, p11, Digit)
        p13 == SkipWhile(s, p12, Space)
        p14 == SkipUntil(s, p13, Space)
        col == LastIndexIn(s, ":", p13 + 1, p14 - 1)
    IN  IF /\ p2 > p1 /\ p3 > p2
           /\ p4 > p3 /\ Char(s, p4) = "/" /\ p5 > p4 + 1
           /\ p6 > p5 /\ Char(s, p6) = "[" /\ p7 > p6 + 1 /\ Char(s, p7) = "]"
           /\ p8 > p7 + 1
           /\ p9 > p8 /\ Char(s, p9) = "." /\ p10 > p9 + 1 /\ Char(s, p10) = ":"
           /\ p11 > p10 + 1 /\ p12 > p11 /\ p13 > p12
           /\ col > 0
        THEN [ok |-> TRUE,
              m |-> <<SubSeq(s, 1, col),
                      SubSeq(s, p1, p2 - 1),
                      SubSeq(s, p3, p4 - 1),
                      SubSeq(s, p4 + 1, p5 - 1),
                      SubSeq(s, p6 + 1, p7 - 1),
                      SubSeq(s, p8, p10 - 1),
                      SubSeq(s, p13, col - 1)>>]
        ELSE NoMatch

\* headerRegex2: ^\s*(\S+)\s+(\d+)\s+(\d+\.\d+):\s+\d+\s+(\S+):
HeaderRegex2(s) ==
    LET p1  == SkipWhile(s, 1, Space)
        p2  == SkipUntil(s, p1, Space)
        p3  == SkipWhile(s, p2, Space)
        p4  == SkipWhile(s, p3, Digit)
        p5  == SkipWhile(s, p4, Space)
        p6  == SkipWhile(s, p5, Digit)
        p7  == SkipWhile(s, p6 + 1, Digit)
        p8  == SkipWhile(s, p7 + 1, Space)
        p9  == SkipWhile(s, p8, Digit)
        p10 == SkipWhile(s, p9, Space)
        p11 == SkipUntil(s, p10, Space)
        col == LastIndexIn(s, ":", p10 + 1, p11 - 1)
    IN  IF /\ p2 > p1 /\ p3 > p2
           /\ p4 > p3 /\ p5 > p4
           /\ p6 > p5 /\ Char(s, p6) = "." /\ p7 > p6 + 1 /\ Char(s, p7) = ":"
           /\ p8 > p7 + 1 /\ p9 > p8 /\ p10 > p9
           /\ col > 0
        THEN [ok |-> TRUE,
              m |-> <<SubSeq(s, 1, col),
                      SubSeq(s, p1, p2 - 1),
                      SubSeq(s, p3, p4 - 1),
                      SubSeq(s, p5, p7 - 1),
                      SubSeq(s, p10, col - 1)>>]
        ELSE NoMatch

\* stackRegex: ^\s+([0-9a-fA-F]+)\s+([^\+\(]+)(?:\+0x([0-9a-fA-F]+))?\s+\(([^\)]+)\)
\* The symbol group runs up to the first '+' or '(' (index e).  Before a '+'
\* the offset group must follow; before a '(' the symbol gives back the one
\* space that \s+ needs.  The \s+ before the symbol takes every space (up to
\* q3) unless that leaves the symbol empty, and then all but one.
StackRegex(s) ==
    LET q1 == SkipWhile(s, 1, Space)
        q2 == SkipWhile(s, q1, HexDigit)
        q3 == SkipWhile(s, q2, Space)
        e  == SkipUntil(s, q2 + 1, {"+", "("})
        h  == SkipWhile(s, e + 3, HexDigit)
        hs == SkipWhile(s, h, Space)
        withOffset == /\ Char(s, e) = "+"
                      /\ e >= q2 + 2
                      /\ Char(s, e + 1) = "0" /\ Char(s, e + 2) = "x"
                      /\ h > e + 3
                      /\ hs > h
                      /\ Char(s, hs) = "("
        noOffset   == /\ Char(s, e) = "("
                      /\ Char(s, e - 1) \in Space
                      /\ e - 1 >= q2 + 2
        v  == IF withOffset THEN e ELSE e - 1
        u  == IF q3 < v THEN q3 ELSE v - 1
        w  == IF withOffset THEN hs ELSE e
        z  == SkipUntil(s, w + 1, {")"})
    IN  IF /\ q1 > 1 /\ q2 > q1 /\ Char(s, q2) \in Space
           /\ (withOffset \/ noOffset)
           /\ z > w + 1 /\ z <= Len(s)
        THEN [ok |-> TRUE,
              m |-> <<SubSeq(s, 1, z),
                      SubSeq(s, q1, q2 - 1),
                      SubSeq(s, u, v - 1),
                      IF withOffset THEN SubSeq(s, e + 3, h - 1) ELSE "",
                      SubSeq(s, w + 1, z - 1)>>]
        ELSE NoMatch

----------------------------------------------------------------------------
(* ParsePerfScript *)

\* bufio.MaxScanTokenSize: the buffer bufio.NewScanner starts with holds a
\* line of at most this many bytes less one; Scan stops at a longer line and
\* Err() is bufio.ErrTooLong.
MaxScanTokenSize == 65536

Line(t) == [text |-> t, pad |-> 0]
LineLen(l) == Len(l.text) + l.pad
TooLong(l) == LineLen(l) >= MaxScanTokenSize

LinePool ==
    { Line("mysqld 12345/12346 [001] 123456.7:     999999 cpu-clock: "),
      Line("reactor-4    3202 88019.4:     124999 cycles:P: "),
      Line("\t    7ffff7a0d000 __pthread_mutex_lock+0x0 (/lib/x86_64-linux-gnu/libpthread-2.31.so)"),
      Line("\tffffffff81234567 do_syscall_64 ([kernel.kallsyms])"),
      Line("    55555560abcd handle_connection+0x123 (/usr/sbin/mysqld)"),
      Line("\t         1caa86e [unknown] (/opt/scylladb/libexec/scylla)"),
      Line("\t55555560deed operator new+0x89"),
      Line(""),
      Line("this is not valid perf script output"),
      [text |-> "0000000000000000", pad |-> MaxScanTokenSize] }

\* A slip in the group numbers: pid and tid exchanged.
SampleOfHeader1_Swapped(m) ==
    [Command   |-> TrimSpace(m[2]),
     PID       |-> Atoi(m[4]),
     TID       |-> Atoi(m[3]),
     CPU       |-> Atoi(m[5]),
     Timestamp |-> ParseFloat(m[6]),
     Event     |-> TrimSpace(m[7]),
     Stack     |-> <<>>]

\* The new sample of a format-1 header (lines 76-90).
SampleOfHeader1(m) ==
    [Command   |-> TrimSpace(m[2]),
     PID       |-> Atoi(m[3]),
     TID       |-> Atoi(m[4]),
     CPU       |-> Atoi(m[5]),
     Timestamp |-> ParseFloat(m[6]),
     Event     |-> TrimSpace(m[7]),
     Stack     |-> <<>>]

\* The thread id left at its zero value instead of the process id.
SampleOfHeader2_NoTid(m) ==
    [Command   |-> TrimSpace(m[2]),
     PID       |-> Atoi(m[3]),
     TID       |-> 0,
     CPU       |-> 0,
     Timestamp |-> ParseFloat(m[4]),
     Event     |-> TrimSpace(m[5]),
     Stack     |-> <<>>]

\* The new sample of a format-2 header (lines 101-113).
SampleOfHeader2(m) ==
    [Command   |-> TrimSpace(m[2]),
     PID       |-> Atoi(m[3]),
     TID       |-> Atoi(m[3]),
     CPU       |-> 0,
     Timestamp |-> ParseFloat(m[4]),
     Event     |-> TrimSpace(m[5]),
     Stack     |-> <<>>]

\* The frame of a stack line, classified (lines 120-128).
FrameOfMatch_Unclassified(m) ==
    [Address |-> m[2], Symbol |-> TrimSpace(m[3]), Module |-> TrimSpace(m[5]),
     Offset |-> m[4], Type |-> FrameTypeUnknown, IsKernel |-> FALSE,
     IsUserland |-> FALSE]
FrameOfMatch(m) ==
    LET f == [Address |-> m[2],
              Symbol  |-> TrimSpace(m[3]),
              Offset  |-> m[4],
              Module  |-> TrimSpace(m[5])]
        c == ClassifyFrame(f)
    IN  [Address |-> f.Address, Symbol |-> f.Symbol, Module |-> f.Module,
         Offset |-> f.Offset, Type |-> c.Type, IsKernel |-> c.IsKernel,
         IsUserland |-> c.IsUserland]

\* The guard of line 118.
IsFrameLine(cur, text) == cur # <<>> /\ HasPrefix(text, "\t")

\* What one pass of the scan loop does with a line, worked out once per line
\* of the pool: which branch takes it and the sample or frame it yields.
Scanned ==
    [l \in LinePool |->
        IF TooLong(l) THEN [kind |-> "toolong"]
        ELSE LET h1 == HeaderRegex1(l.text)
                 h2 == HeaderRegex2(l.text)
                 st == StackRegex(l.text)
             IN  IF h1.ok THEN [kind |-> "header1", sample |-> SampleOfHeader1(h1.m)]
                 ELSE IF h2.ok THEN [kind |-> "header2", sample |-> SampleOfHeader2(h2.m)]
                 ELSE [kind |-> "other", tab |-> HasPrefix(l.text, "\t"),
                       stack |-> st.ok,
                       frame |-> IF st.ok THEN <<FrameOfMatch(st.m)>> ELSE <<>>]]

NoResult == [samples |-> <<>>, err |-> FALSE]
NoFrame == [Module |-> "", Symbol |-> ""]

\* The variables of the entry points a behaviour does not exercise.
ParseIdle ==
    /\ input = <<>> /\ pos = 1 /\ currentSample = <<>> /\ samples = <<>>
    /\ result = NoResult
ClassIdle == frame = NoFrame /\ class = <<>>
OutputFiles == {"heatmap.html", "heatmap-data.json", "patterns.json"}
NoFiles == [f \in OutputFiles |-> "absent"]
HeatIdle ==
    /\ hmSamples = <<>> /\ windowSize = 1 /\ windows = <<>>
    /\ timeWindowsData = <<>> /\ hmErr = ""
    /\ patterns = <<>> /\ files = NoFiles
\* An output directory that holds the heatmap.html of an earlier run.
UsedDir == [NoFiles EXCEPT !["heatmap.html"] = "old"]
FlagsIdle == flags = <<>>
OrchIdle == report = <<>> /\ capture = <<>> /\ FlagsIdle

InitParse ==
    /\ mode = "parse"
    /\ pc = "scan"
    /\ input \in UNION { [1..n -> LinePool] : n \in 0..MaxLines }
    /\ pos = 1
    /\ currentSample = <<>>
    /\ samples = <<>>
    /\ result = NoResult
    /\ ClassIdle
    /\ HeatIdle
    /\ OrchIdle

Scanning == mode = "parse" /\ pc = "scan" /\ pos <= Len(input)

\* Lines 70-92: the line matches headerRegex1.
ScanHeader1 ==
    /\ Scanning
    /\ Scanned[input[pos]].kind = "header1"
    /\ samples' = samples \o currentSample
    /\ currentSample' = <<Scanned[input[pos]].sample>>
    /\ pos' = pos + 1
    /\ UNCHANGED <<mode, pc, input, result, classVars, heatVars, orchVars>>

\* Lines 95-115: the line matches headerRegex2 and not headerRegex1.
ScanHeader2 ==
    /\ Scanning
    /\ Scanned[input[pos]].kind = "header2"
    /\ samples' = samples \o currentSample
    /\ currentSample' = <<Scanned[input[pos]].sample>>
    /\ pos' = pos + 1
    /\ UNCHANGED <<mode, pc, input, result, classVars, heatVars, orchVars>>

\* Lines 118-132: a stack frame line of the open sample.
ScanFrame ==
    /\ Scanning
    /\ Scanned[input[pos]].kind = "other"
    /\ IsFrameLine(currentSample, input[pos].text)
    /\ Scanned[input[pos]].stack
    /\ currentSample' =
          <<[currentSample[1] EXCEPT
                !.Stack = @ \o Scanned[input[pos]].frame]>>
    /\ pos' = pos + 1
    /\ UNCHANGED <<mode, pc, input, samples, result, classVars, heatVars, orchVars>>

\* Lines 118-133: any other line falls through the loop body.
ScanSkip ==
    /\ Scanning
    /\ Scanned[input[pos]].kind = "other"
    /\ ~(IsFrameLine(currentSample, input[pos].text) /\ Scanned[input[pos]].stack)
    /\ pos' = pos + 1
    /\ UNCHANGED <<mode, pc, input, currentSample, samples, result, classVars, heatVars, orchVars>>

\* Lines 66, 135-144: Scan() reports the end of the input; the open sample
\* is flushed and the samples are returned.
ScanEOF ==
    /\ mode = "parse" /\ pc = "scan"
    /\ pos > Len(input)
    /\ samples' = samples \o currentSample
    /\ result' = [samples |-> samples', err |-> FALSE]
    /\ pc' = "done"
    /\ UNCHANGED <<mode, input, pos, currentSample, classVars, heatVars, orchVars>>

\* Lines 66, 135-142: Scan() stops at a line that does not fit its buffer;
\* the open sample is flushed, then scanner.Err() is not nil and the function
\* returns nil and the error.
ScanTooLong ==
    /\ Scanning
    /\ Scanned[input[pos]].kind = "toolong"
    /\ samples' = samples \o currentSample
    /\ result' = [samples |-> <<>>, err |-> TRUE]
    /\ pc' = "done"
    /\ UNCHANGED <<mode, input, pos, currentSample, classVars, heatVars, orchVars>>

NextParse ==
    \/ ScanHeader1
    \/ ScanHeader2
    \/ ScanFrame
    \/ ScanSkip
    \/ ScanEOF
    \/ ScanTooLong

SpecParse == InitParse /\ [][NextParse]_vars

----------------------------------------------------------------------------
(* Properties of ParsePerfScript *)

\* The lines the scan loop has taken so far.
Processed == 1..(pos - 1)

IsHeader(l) == Scanned[l].kind \in {"header1", "header2"}

\* Every sample started so far, flushed or still open.
AllSamples == IF pc = "done" THEN samples ELSE samples \o currentSample

\* The indexes, in input order, of the header-matching lines among the first n.
RECURSIVE HeaderIndexes(_)
HeaderIndexes(n) ==
    IF n = 0 THEN <<>>
    ELSE IF IsHeader(input[n]) THEN Append(HeaderIndexes(n - 1), n)
    ELSE HeaderIndexes(n - 1)

\* strings.Fields: the maximal runs of non-space characters of a line.
RECURSIVE Fields(_)
Fields(s) ==
    LET a == SkipWhile(s, 1, Space)
        b == SkipUntil(s, a, Space)
    IN  IF a > Len(s) THEN <<>>
        ELSE <<SubSeq(s, a, b - 1)>> \o Fields(SubSeq(s, b, Len(s)))

AllIn(s, cls) == Len(s) > 0 /\ \A i \in 1..Len(s) : Char(s, i) \in cls
Before(s, c) == SubSeq(s, 1, SkipUntil(s, 1, {c}) - 1)
After(s, c) == SubSeq(s, SkipUntil(s, 1, {c}) + 1, Len(s))
Inner(s) == SubSeq(s, 2, Len(s) - 1)
IsTimestampField(s) ==
    /\ HasSuffix(s, ":")
    /\ AllIn(Before(s, "."), Digit)
    /\ AllIn(Before(After(s, "."), ":"), Digit)
    /\ Len(After(After(s, "."), ":")) = 0
IsEventField(s) == Len(s) >= 2 /\ HasSuffix(s, ":")

\* A line of the form <name> <pid>/<tid> [<cpu>] <timestamp>: <count> <event>:
IsForm1(t) ==
    LET f == Fields(t)
    IN  /\ Len(f) = 6
        /\ AllIn(Before(f[2], "/"), Digit) /\ AllIn(After(f[2], "/"), Digit)
        /\ HasPrefix(f[3], "[") /\ HasSuffix(f[3], "]") /\ AllIn(Inner(f[3]), Digit)
        /\ IsTimestampField(f[4])
        /\ AllIn(f[5], Digit)
        /\ IsEventField(f[6])

\* A line of the form <name> <pid> <timestamp>: <count> <event>:
IsForm2(t) ==
    LET f == Fields(t)
    IN  /\ Len(f) = 5
        /\ AllIn(f[2], Digit)
        /\ IsTimestampField(f[3])
        /\ AllIn(f[4], Digit)
        /\ IsEventField(f[5])

Form1Lines == {l \in LinePool : ~TooLong(l) /\ IsForm1(l.text)}
Form2Lines == {l \in LinePool : ~TooLong(l) /\ IsForm2(l.text)}
BothHeaderLines ==
    {l \in LinePool : ~TooLong(l) /\ HeaderRegex1(l.text).ok /\ HeaderRegex2(l.text).ok}

\* The frames of the tab-indented frame-shaped lines among lines lo..hi.
RECURSIVE TabFrames(_, _)
TabFrames(lo, hi) ==
    IF hi < lo THEN <<>>
    ELSE TabFrames(lo, hi - 1) \o
         (IF Scanned[input[hi]].tab /\ Scanned[input[hi]].stack
          THEN Scanned[input[hi]].frame ELSE <<>>)

\* The frames of the indented (by white space of any kind) frame-shaped lines
\* among lines lo..hi.
RECURSIVE IndentedFrames(_, _)
IndentedFrames(lo, hi) ==
    IF hi < lo THEN <<>>
    ELSE IndentedFrames(lo, hi - 1) \o
         (IF Char(input[hi].text, 1) \in Space /\ Scanned[input[hi]].stack
          THEN Scanned[input[hi]].frame ELSE <<>>)

\* The last processed line of the sample that header line k starts.
EndOf(k) ==
    LET later == {j \in Processed : j > k /\ IsHeader(input[j])}
    IN  IF later = {} THEN pos - 1
        ELSE (CHOOSE j \in later : \A i \in later : j <= i) - 1

\* C1: for every input the parser returns no error and returns the samples
\* it recognised; an over-long line neither makes it fail nor discards them.
C1_NeverFails ==
    (mode = "parse" /\ pc = "done") =>
        (result.err = FALSE /\ result.samples = samples)

\* C2: the output holds exactly one sample per header-matching line of the
\* input, in input order, and no error is returned; input without a
\* header-matching line yields the empty sequence and no error.
C2_OneSamplePerHeader ==
    (mode = "parse" /\ pc = "done") =>
        LET idx == HeaderIndexes(Len(input))
        IN  /\ result.err = FALSE
            /\ Len(result.samples) = Len(idx)
            /\ \A k \in 1..Len(idx) :
                  /\ result.samples[k].PID = Scanned[input[idx[k]]].sample.PID
                  /\ result.samples[k].Timestamp =
                        Scanned[input[idx[k]]].sample.Timestamp

\* C3: every processed non-header line that begins with white space of any
\* kind and has the frame shape is on the stack of the sample open at that
\* line, in input order; with no sample open it is ignored.
C3_IndentedFrameAppended ==
    mode = "parse" =>
        LET idx == HeaderIndexes(pos - 1)
        IN  /\ Len(AllSamples) = Len(idx)
            /\ \A k \in 1..Len(idx) :
                  AllSamples[k].Stack = IndentedFrames(idx[k] + 1, EndOf(idx[k]))

C5_Format2Header ==
    mode = "parse" =>
        LET idx == HeaderIndexes(pos - 1)
        IN  /\ Len(AllSamples) = Len(idx)
            /\ \A k \in 1..Len(idx) :
                  input[idx[k]] \in Form2Lines =>
                    LET f == Fields(input[idx[k]].text)
                        s == AllSamples[k]
                    IN  /\ s.Command = f[1]
                        /\ s.PID = Atoi(f[2])
                        /\ s.TID = s.PID
                        /\ s.CPU = 0
                        /\ s.Timestamp = ParseFloat(Before(f[3], ":"))
                        /\ s.Event = SubSeq(f[5], 1, Len(f[5]) - 1)
            /\ \A j \in Processed : input[j] \in Form2Lines => IsHeader(input[j])
            /\ \A j \in Processed : input[j] \notin BothHeaderLines
            /\ Form1Lines \cap Form2Lines = {}

\* C5, the case of the example: a format-2 header and one frame line.
C5_Witness ==
    /\ mode = "parse" /\ pos = 3
    /\ input[1] \in Form2Lines
    /\ currentSample # <<>>
    /\ currentSample[1].PID = 3202 /\ currentSample[1].TID = 3202
    /\ currentSample[1].CPU = 0
    /\ Len(currentSample[1].Stack) = 1

----------------------------------------------------------------------------
(* ClassifyFrame as an entry point of its own *)

ModulePool ==
    { "[kernel.kallsyms]", "/usr/lib/debug/boot/vmlinux-5.4.0", "[Kernel.Core]",
      "[nvidia]", "[vdso]", "[anon",
      "/lib/x86_64-linux-gnu/libc-2.31.so", "/opt/app/libc-static",
      "/usr/local/bin/libcheck", "/usr/lib/libcrypto.so.1.1",
      "/lib/x86_64-linux-gnu/libpthread-2.31.so", "/usr/lib/LIBPTHREAD.SO.0",
      "/usr/lib/glibc/libpthread.so", "[libpthread]",
      "/opt/mysql/lib/libpthread.so",
      "/usr/lib/libmysqlclient.so.21", "/usr/sbin/mariadbd",
      "/usr/lib/some.so", "/usr/sbin/myapp", "/opt/scylladb/libexec/scylla" }

SymbolPool ==
    { "do_syscall_64", "mysql_query", "Maria_Open", "main",
      "__pthread_mutex_lock", "[unknown]" }

InitClassify ==
    /\ mode = "classify"
    /\ pc = "call"
    /\ frame \in [Module : ModulePool, Symbol : SymbolPool]
    /\ class = <<>>
    /\ ParseIdle
    /\ HeatIdle
    /\ OrchIdle

\* Lines 148-195: one call of ClassifyFrame.
Classify ==
    /\ mode = "classify" /\ pc = "call"
    /\ class' = <<ClassifyFrame(frame)>>
    /\ pc' = "done"
    /\ UNCHANGED <<mode, frame, parseVars, heatVars, orchVars>>

NextClassify == Classify

SpecClassify == InitClassify /\ [][NextClassify]_vars

----------------------------------------------------------------------------
(* Properties of ClassifyFrame *)

Classified == mode = "classify" /\ pc = "done"

\* The number of the first rule of the list, 1..8, that a lower-cased module
\* m and symbol y satisfy.
FirstRule(m, y) ==
    LET holds == [i \in 1..8 |->
            CASE i = 1 -> \E k \in {"kernel.kallsyms", "[kernel", "vmlinux"} : Contains(m, k)
              [] i = 2 -> Char(m, 1) = "[" /\ Char(m, Len(m)) = "]"
              [] i = 3 -> Contains(m, "libc") /\ \E k \in {".so", "libc-"} : Contains(m, k)
              [] i = 4 -> Contains(m, "libpthread")
              [] i = 5 -> \/ \E k \in {"mysql", "mariadb"} : Contains(m, k)
                          \/ \E k \in {"mysql", "maria"} : Contains(y, k)
              [] i = 6 -> ~Contains(m, ".so") /\ Char(m, 1) # "["
              [] i = 7 -> Contains(m, ".so")
              [] i = 8 -> TRUE]
    IN  CHOOSE i \in 1..8 : holds[i] /\ \A j \in 1..(i - 1) : ~holds[j]

RuleOutcome ==
    <<Triple("kernel_core", TRUE, FALSE), Triple("kernel_driver", TRUE, FALSE),
      Triple("libc", FALSE, TRUE), Triple("libpthread", FALSE, TRUE),
      Triple("libmysql", FALSE, TRUE), Triple("application", FALSE, TRUE),
      Triple("unknown", FALSE, TRUE), Triple("unknown", FALSE, FALSE)>>

\* C6: ClassifyFrame returns the outcome of the first of the eight rules
\* that the lower-cased module and symbol satisfy; module [kernel.kallsyms]
\* gives kernel_core, kernel and not userland, for every symbol.
C6_FirstMatchWins ==
    Classified =>
        /\ Len(class) = 1
        /\ class[1] = RuleOutcome[FirstRule(ToLower(frame.Module), ToLower(frame.Symbol))]
        /\ frame.Module = "[kernel.kallsyms]" =>
              class[1] = Triple("kernel_core", TRUE, FALSE)

\* C6: a frame that only the last rule takes.
C6_Witness ==
    /\ Classified
    /\ frame.Module = "[anon"
    /\ class[1] = Triple("unknown", FALSE, FALSE)

\* C7 as stated: every frame whose module contains "libpthread" is
\* classified libpthread, userland and not kernel.
C7_LibpthreadAlways ==
    (Classified /\ Contains(ToLower(frame.Module), "libpthread")) =>
        class[1] = Triple("libpthread", FALSE, TRUE)

\* C7 as amended: a frame whose module contains "libpthread" and satisfies
\* none of the three rules tried before it (kernel image, bracket-delimited,
\* libc) is classified libpthread, userland and not kernel, whatever its
\* symbol is.
C7_LibpthreadUnlessEarlierRule ==
    LET m == ToLower(frame.Module)
    IN  ( /\ Classified
          /\ Contains(m, "libpthread")
          /\ \A k \in {"kernel.kallsyms", "[kernel", "vmlinux"} : ~Contains(m, k)
          /\ ~(Char(m, 1) = "[" /\ Char(m, Len(m)) = "]")
          /\ ~(Contains(m, "libc") /\ \E k \in {".so", "libc-"} : Contains(m, k)) )
        => class[1] = Triple("libpthread", FALSE, TRUE)

\* C7: the library under a path and with a symbol that name the database.
C7_Witness ==
    /\ Classified
    /\ frame.Module = "/opt/mysql/lib/libpthread.so"
    /\ frame.Symbol = "mysql_query"
    /\ class[1] = Triple("libpthread", FALSE, TRUE)

----------------------------------------------------------------------------
(* Time windowing *)

\* GetTopFrame: <<>> for nil, else the leaf frame.
GetTopFrame_Bottom(s) ==
    IF Len(s.Stack) > 0 THEN <<s.Stack[Len(s.Stack)]>> ELSE <<>>
GetTopFrame(s) ==
    IF Len(s.Stack) > 0 THEN <<s.Stack[1]>> ELSE <<>>

\* Lines 237-247: the smallest and the largest timestamp of samples 1..k.
RECURSIVE MinTimestamp(_, _)
MinTimestamp(ss, k) ==
    IF k = 1 THEN ss[1].Timestamp
    ELSE LET m == MinTimestamp(ss, k - 1)
         IN  IF ss[k].Timestamp < m THEN ss[k].Timestamp ELSE m

RECURSIVE MaxTimestamp(_, _)
MaxTimestamp(ss, k) ==
    IF k = 1 THEN ss[1].Timestamp
    ELSE LET m == MaxTimestamp(ss, k - 1)
         IN  IF ss[k].Timestamp > m THEN ss[k].Timestamp ELSE m

\* Line 251.  int() truncates; the quotient is never negative here.
NumWindows_NoExtra(totalDuration, size) == totalDuration \div size
NumWindows(totalDuration, size) == (totalDuration \div size) + 1

\* Line 267.
WindowIndex_Absolute(ts, minTime, size) == ts \div size
WindowIndex(ts, minTime, size) == (ts - minTime) \div size

\* Lines 266-271: the windows after samples 1..k have been assigned.
RECURSIVE AssignSamples(_, _, _, _, _)
AssignSamples(empty, ss, k, minTime, size) ==
    IF k = 0 THEN empty
    ELSE LET prev == AssignSamples(empty, ss, k - 1, minTime, size)
             windowIndex == WindowIndex(ss[k].Timestamp, minTime, size)
         IN  IF windowIndex >= 0 /\ windowIndex < Len(empty)
             THEN [prev EXCEPT ![windowIndex + 1].Samples = Append(@, ss[k])]
             ELSE prev

PartitionByTime(ss, size) ==
    IF Len(ss) = 0 THEN <<>>
    ELSE LET minTime == MinTimestamp(ss, Len(ss))
             maxTime == MaxTimestamp(ss, Len(ss))
             totalDuration == maxTime - minTime
             numWindows == NumWindows(totalDuration, size)
             empty == [i \in 1..numWindows |->
                          [StartTime |-> minTime + (i - 1) * size,
                           EndTime   |-> minTime + (i - 1) * size + size,
                           Duration  |-> size,
                           Samples   |-> <<>>]]
         IN  AssignSamples(empty, ss, Len(ss), minTime, size)

----------------------------------------------------------------------------
(* GenerateHeatmap: the per-window aggregation *)

\* m[k]++ on a Go map.
Incr(m, k) == IF k \in DOMAIN m THEN [m EXCEPT ![k] = @ + 1] ELSE m @@ (k :> 1)

EmptyMap == <<>>

\* A percentage float64(k)/float64(n)*100, kept as the exact fraction num/den.
Pct_Permille(k, n) == [num |-> k * 1000, den |-> n]
Pct(k, n) == [num |-> k * 100, den |-> n]
ZeroPct == [num |-> 0, den |-> 1]

\* Lines 112-129: the tallies after samples 1..k of a window.
RECURSIVE CountOccurrences(_, _)
CountOccurrences(ss, k) ==
    IF k = 0
    THEN [FunctionCounts |-> EmptyMap, ThreadCounts |-> EmptyMap,
          CategoryCounts |-> EmptyMap, kernelCount |-> 0, userlandCount |-> 0]
    ELSE LET a == CountOccurrences(ss, k - 1)
             top == GetTopFrame(ss[k])
         IN  IF top = <<>>
             THEN [a EXCEPT !.ThreadCounts = Incr(@, ss[k].TID)]
             ELSE [FunctionCounts |-> Incr(a.FunctionCounts, top[1].Symbol),
                   ThreadCounts   |-> Incr(a.ThreadCounts, ss[k].TID),
                   CategoryCounts |-> Incr(a.CategoryCounts, top[1].Type),
                   kernelCount    |-> IF top[1].IsKernel THEN a.kernelCount + 1
                                      ELSE a.kernelCount,
                   userlandCount  |-> IF ~top[1].IsKernel /\ top[1].IsUserland
                                      THEN a.userlandCount + 1
                                      ELSE a.userlandCount]

\* Lines 137-143: the largest tally, and the functions the loop can end on.
\* The map is ranged over in an order Go does not fix and a function
\* replaces the current one only with a strictly larger tally, so any
\* function with the largest tally can be the last one kept.
MaxCount(fc) ==
    IF DOMAIN fc = {} THEN 0
    ELSE CHOOSE c \in {fc[f] : f \in DOMAIN fc} : \A g \in DOMAIN fc : fc[g] <= c
TopCandidates_Any(fc) == IF DOMAIN fc = {} THEN {""} ELSE DOMAIN fc
TopCandidates(fc) ==
    IF DOMAIN fc = {} THEN {""}
    ELSE {f \in DOMAIN fc : fc[f] = MaxCount(fc)}

\* Lines 101-145: the aggregate of window number i (from 0) with top function top.
WindowData_TopKernel(i, window, top) ==
    LET n == Len(window.Samples)
        a == CountOccurrences(window.Samples, n)
    IN  [WindowIndex        |-> i,
         StartTime          |-> window.StartTime,
         EndTime            |-> window.EndTime,
         SampleCount        |-> n,
         FunctionCounts     |-> a.FunctionCounts,
         ThreadCounts       |-> a.ThreadCounts,
         CategoryCounts     |-> a.CategoryCounts,
         TopFunction        |-> IF n > 0 THEN top ELSE "",
         TopFunctionPercent |-> IF n > 0 THEN Pct(MaxCount(a.FunctionCounts), n)
                                ELSE ZeroPct,
         KernelPercent      |-> IF n > 0 /\ top = "do_syscall_64"
                                THEN Pct(a.kernelCount, n) ELSE ZeroPct,
         UserlandPercent    |-> IF n > 0 THEN Pct(a.userlandCount, n) ELSE ZeroPct]
WindowData(i, window, top) ==
    LET n == Len(window.Samples)
        a == CountOccurrences(window.Samples, n)
    IN  [WindowIndex        |-> i,
         StartTime          |-> window.StartTime,
         EndTime            |-> window.EndTime,
         SampleCount        |-> n,
         FunctionCounts     |-> a.FunctionCounts,
         ThreadCounts       |-> a.ThreadCounts,
         CategoryCounts     |-> a.CategoryCounts,
         TopFunction        |-> IF n > 0 THEN top ELSE "",
         TopFunctionPercent |-> IF n > 0 THEN Pct(MaxCount(a.FunctionCounts), n)
                                ELSE ZeroPct,
         KernelPercent      |-> IF n > 0 THEN Pct(a.kernelCount, n) ELSE ZeroPct,
         UserlandPercent    |-> IF n > 0 THEN Pct(a.userlandCount, n) ELSE ZeroPct]

----------------------------------------------------------------------------
(* detectPatterns *)

\* Lines 271-285: is substr found in s, compared position by position.
findSubstring(s, substr) ==
    \E i \in 0..(Len(s) - Len(substr)) :
        SubSeq(s, i + 1, i + Len(substr)) = substr

\* Lines 261-268.
containsAny(s, substrs) ==
    \E k \in 1..Len(substrs) :
        Len(s) >= Len(substrs[k]) /\ findSubstring(s, substrs[k])

\* Line 215: the names that make a function lock-related.
LockSubstrings == <<"pthread_mutex", "futex", "rwlock", "__lll_lock">>

RECURSIVE SumOver(_, _)
SumOver(m, keys) ==
    IF keys = {} THEN 0
    ELSE LET k == CHOOSE x \in keys : TRUE
         IN  m[k] + SumOver(m, keys \ {k})

\* Lines 212-218: the tallies of the lock-related functions, added up.  The
\* order in which the map is ranged over does not change a sum.
lockCount(window) ==
    SumOver(window.FunctionCounts,
            {fn \in DOMAIN window.FunctionCounts : containsAny(fn, LockSubstrings)})

\* Line 220, with Go's truncating integer division.
LockContention_AtLeast(lc, n) == lc >= n \div 2
LockContention(lc, n) == lc > n \div 2

\* Line 233: window.SampleCount*70/100, in integers.
SyscallThreshold_Truncated(n) == (n \div 100) * 70
SyscallThreshold(n) == (n * 70) \div 100

\* Line 233: the comma-ok lookup and the comparison.
HighSyscall_AtLeast(exists, syscallCount, n) == syscallCount >= SyscallThreshold(n)
HighSyscall(exists, syscallCount, n) ==
    exists /\ syscallCount > SyscallThreshold(n)

\* Lines 207 and 245: float64(n) > float64(total)/float64(len)*1.5, decided
\* in exact arithmetic as 2*n*len > 3*total (len > 0).
CPUSpike_AboveMean(n, totalSamples, len) == n * len > totalSamples
CPUSpike(n, totalSamples, len) == 2 * n * len > 3 * totalSamples

\* An Anomaly without its Description, a text made of the same numbers.
Anomaly_OneBased(i, type, severity, value) ==
    [WindowIndex |-> i + 1, Type |-> type, Severity |-> severity, Value |-> value]
Anomaly(i, type, severity, value) ==
    [WindowIndex |-> i, Type |-> type, Severity |-> severity, Value |-> value]

\* Lines 195-200.  panic is not a field of PatternDetection: it records
\* that the run ended in a run-time panic instead of returning.
EmptyPatterns ==
    [LockContentionWindows |-> <<>>, HighSyscallWindows |-> <<>>,
     CPUSpikes |-> <<>>, Anomalies |-> <<>>, panic |-> FALSE]

\* Lines 203-206.
RECURSIVE TotalSamples(_, _)
TotalSamples(ws, k) ==
    IF k = 0 THEN 0 ELSE TotalSamples(ws, k - 1) + ws[k].SampleCount

\* Lines 211-254: one pass of the loop, for window number i (from 0).  The
\* integer division lockCount*100/window.SampleCount of line 225 panics
\* when the sample count is 0.
DetectWindow(p, window, i, totalSamples, len) ==
    LET n == window.SampleCount
        lc == lockCount(window)
        exists == "kernel_core" \in DOMAIN window.CategoryCounts
        syscallCount == IF exists THEN window.CategoryCounts["kernel_core"] ELSE 0
        p1 == IF LockContention(lc, n)
              THEN [p EXCEPT !.LockContentionWindows = Append(@, i),
                             !.Anomalies = Append(@,
                                 Anomaly(i, "lock_contention", "high", Pct(lc, n)))]
              ELSE p
        p2 == IF HighSyscall(exists, syscallCount, n)
              THEN [p1 EXCEPT !.HighSyscallWindows = Append(@, i),
                              !.Anomalies = Append(@,
                                  Anomaly(i, "high_syscall", "medium",
                                          window.KernelPercent))]
              ELSE p1
        p3 == IF CPUSpike(n, totalSamples, len)
              THEN [p2 EXCEPT !.CPUSpikes = Append(@, i),
                              !.Anomalies = Append(@,
                                  Anomaly(i, "cpu_spike", "medium",
                                          [num |-> n, den |-> 1]))]
              ELSE p2
    IN  IF p.panic THEN p
        ELSE IF LockContention(lc, n) /\ n = 0 THEN [p EXCEPT !.panic = TRUE]
        ELSE p3

RECURSIVE DetectWindows(_, _, _)
DetectWindows(ws, k, totalSamples) ==
    IF k = 0 THEN EmptyPatterns
    ELSE DetectWindow(DetectWindows(ws, k - 1, totalSamples), ws[k], k - 1,
                      totalSamples, Len(ws))

detectPatterns(ws) == DetectWindows(ws, Len(ws), TotalSamples(ws, Len(ws)))

----------------------------------------------------------------------------
(* GenerateHeatmap as a whole *)

HeatFrame(symbol, module) ==
    FrameOfMatch(<<"", "0", symbol, "", module>>)

LockFrame == HeatFrame("__pthread_mutex_lock", "/lib/x86_64-linux-gnu/libpthread-2.31.so")
KernelFrame == HeatFrame("do_syscall_64", "[kernel.kallsyms]")

\* The thread id and stack of the samples handed to GenerateHeatmap.
SampleKinds ==
    { [TID |-> 1, Stack |-> <<>>],
      [TID |-> 1, Stack |-> <<LockFrame, KernelFrame>>],
      [TID |-> 2, Stack |-> <<KernelFrame>>] }

HeatSamplePool ==
    { [Command |-> "mysqld", PID |-> 1, TID |-> k.TID, CPU |-> 0,
       Timestamp |-> ts, Event |-> "cpu-clock", Stack |-> k.Stack] :
      k \in SampleKinds, ts \in 0..MaxTime }

InitHeat ==
    /\ mode = "heatmap"
    /\ pc = "start"
    /\ hmSamples \in UNION { [1..n -> HeatSamplePool] : n \in 0..MaxSamples }
    /\ windowSize \in 1..MaxWindowSize
    /\ windows = <<>>
    /\ timeWindowsData = <<>>
    /\ hmErr = ""
    /\ patterns = <<>>
    /\ files = UsedDir
    /\ ParseIdle
    /\ ClassIdle
    /\ OrchIdle

\* Line 61.
NoSamples_Never(ss) == FALSE
NoSamples(ss) == Len(ss) = 0

\* Lines 61-63: nothing to analyse.
RejectEmpty ==
    /\ mode = "heatmap" /\ pc = "start"
    /\ NoSamples(hmSamples)
    /\ hmErr' = "no samples to analyze"
    /\ pc' = "done"
    /\ UNCHANGED <<mode, hmSamples, windowSize, windows, timeWindowsData,
                   patterns, files, parseVars, classVars, orchVars>>

\* Line 66: the samples are partitioned into time windows.
Partition ==
    /\ mode = "heatmap" /\ pc = "start"
    /\ ~NoSamples(hmSamples)
    /\ windows' = PartitionByTime(hmSamples, windowSize)
    /\ pc' = IF Len(windows') = 0 THEN "detect" ELSE "aggregate"
    /\ UNCHANGED <<mode, hmSamples, windowSize, timeWindowsData, hmErr,
                   patterns, files, parseVars, classVars, orchVars>>

\* Lines 137-143 for every window: the ways the loops over the function
\* tallies can come out, one top function for each window.
TopChoices(ws) ==
    LET cand == [i \in DOMAIN ws |->
                    TopCandidates(CountOccurrences(ws[i].Samples,
                                                   Len(ws[i].Samples)).FunctionCounts)]
        names == UNION {cand[i] : i \in DOMAIN ws}
    IN  {t \in [DOMAIN ws -> names] : \A i \in DOMAIN ws : t[i] \in cand[i]}

\* Lines 99-148: the loop over the windows.
AggregateWindows ==
    /\ mode = "heatmap" /\ pc = "aggregate"
    /\ \E tops \in TopChoices(windows) :
          timeWindowsData' =
              [i \in DOMAIN windows |-> WindowData(i - 1, windows[i], tops[i])]
    /\ pc' = "detect"
    /\ UNCHANGED <<mode, hmSamples, windowSize, windows, hmErr,
                   patterns, files, parseVars, classVars, orchVars>>

\* Line 163.  A panic of detectPatterns ends GenerateHeatmap as well.
Detect ==
    /\ mode = "heatmap" /\ pc = "detect"
    /\ patterns' = <<detectPatterns(timeWindowsData)>>
    /\ pc' = IF patterns'[1].panic THEN "panicked" ELSE "write"
    /\ UNCHANGED <<mode, hmSamples, windowSize, windows, timeWindowsData, hmErr,
                   files, parseVars, classVars, orchVars>>

\* os.Create with Execute, or os.WriteFile: the file is written, or the
\* call fails and leaves behind whatever the system made of it.
WriteFile(fs, name, ok) == [fs EXCEPT ![name] = IF ok THEN "new" ELSE "failed"]

\* Lines 166-190: heatmap.html, heatmap-data.json and patterns.json are
\* written in this order; the first write that fails ends the function.
WriteOutputs ==
    /\ mode = "heatmap" /\ pc = "write"
    /\ \E failing \in {"heatmap.html", "heatmap-data.json", "patterns.json", "none"} :
          LET f1 == WriteFile(files, "heatmap.html", failing # "heatmap.html")
              f2 == WriteFile(f1, "heatmap-data.json", failing # "heatmap-data.json")
              f3 == WriteFile(f2, "patterns.json", failing # "patterns.json")
          IN  /\ files' = CASE failing = "heatmap.html" -> f1
                            [] failing = "heatmap-data.json" -> f2
                            [] OTHER -> f3
              /\ hmErr' = CASE failing = "heatmap.html" -> "error generating HTML heatmap"
                            [] failing = "heatmap-data.json" -> "error writing heatmap JSON"
                            [] failing = "patterns.json" -> "error writing patterns JSON"
                            [] OTHER -> ""
    /\ pc' = "done"
    /\ UNCHANGED <<mode, hmSamples, windowSize, windows, timeWindowsData,
                   patterns, parseVars, classVars, orchVars>>

NextHeat ==
    \/ RejectEmpty
    \/ Partition
    \/ AggregateWindows
    \/ Detect
    \/ WriteOutputs

SpecHeat == InitHeat /\ [][NextHeat]_vars

----------------------------------------------------------------------------
(* detectPatterns called on aggregates, as TestDetectPatterns calls it *)

\* A Go map from its entries; an entry with tally 0 is left out.
RECURSIVE MapOf(_)
MapOf(entries) ==
    IF entries = <<>> THEN EmptyMap
    ELSE LET e == entries[1]
             rest == MapOf(Tail(entries))
         IN  IF e[2] = 0 THEN rest
             ELSE IF e[1] \in DOMAIN rest THEN [rest EXCEPT ![e[1]] = @ + e[2]]
             ELSE rest @@ (e[1] :> e[2])

\* The fields of a TimeWindowData that detectPatterns reads, the others zero.
DetectInput(i, n, fc, cc, kernelPercent) ==
    [WindowIndex |-> i, StartTime |-> 0, EndTime |-> 0, SampleCount |-> n,
     FunctionCounts |-> fc, ThreadCounts |-> EmptyMap, CategoryCounts |-> cc,
     TopFunction |-> "", TopFunctionPercent |-> ZeroPct,
     KernelPercent |-> kernelPercent, UserlandPercent |-> ZeroPct]

\* The aggregate of n samples of which `lock` have the leaf function fn,
\* `kernel` a kernel_core leaf and the others an application leaf.  The
\* leaf futex_wait is a function of the kernel, the other names are
\* functions of libpthread.
ShapeWindow(i, sh) ==
    LET other == sh.n - sh.lock - sh.kernel
        inKernel == sh.fn = "futex_wait"
    IN  DetectInput(i, sh.n,
            MapOf(<< <<sh.fn, sh.lock>>, <<"do_syscall_64", sh.kernel>>,
                     <<"normal_function", other>> >>),
            MapOf(<< <<IF inKernel THEN "kernel_core" ELSE "libpthread", sh.lock>>,
                     <<"kernel_core", sh.kernel>>,
                     <<"application", other>> >>),
            IF sh.n > 0
            THEN Pct(sh.kernel + (IF inKernel THEN sh.lock ELSE 0), sh.n)
            ELSE ZeroPct)

Shape(n, lock, kernel, fn) == [n |-> n, lock |-> lock, kernel |-> kernel, fn |-> fn]

SmallShapes ==
    { sh \in { Shape(n, lock, kernel, "pthread_mutex_lock") :
                 n \in 0..MaxDetectCount, lock \in 0..MaxDetectCount,
                 kernel \in 0..MaxDetectCount } :
        sh.lock + sh.kernel <= sh.n }

\* Windows at and next to the 50% and the 70% thresholds.
BoundaryShapes ==
    { Shape(100, 50, 0, "pthread_mutex_lock"), Shape(100, 51, 0, "pthread_mutex_lock"),
      Shape(100, 0, 70, "pthread_mutex_lock"), Shape(100, 0, 71, "pthread_mutex_lock"),
      Shape(10, 0, 7, "pthread_mutex_lock"), Shape(10, 0, 8, "pthread_mutex_lock") }

\* Names of leaf functions, lock-related and not.
FunctionNamePool ==
    { "futex_wait", "pthread_rwlock_rdlock", "__lll_lock_wait", "mutex_lock",
      "normal_function", "__pthread_mutex_unlock" }

NameShapes == { Shape(2, 2, 0, fn) : fn \in FunctionNamePool }

DetectShapes == SmallShapes \cup BoundaryShapes \cup NameShapes

\* The four windows of TestDetectPatterns.
TestDetectPatternsWindows ==
    << DetectInput(0, 100, MapOf(<< <<"normal_function", 100>> >>),
                   MapOf(<< <<"application", 100>> >>), [num |-> 10, den |-> 1]),
       DetectInput(1, 100, MapOf(<< <<"pthread_mutex_lock", 60>>,
                                    <<"other_function", 40>> >>),
                   MapOf(<< <<"libpthread", 60>> >>), [num |-> 10, den |-> 1]),
       DetectInput(2, 100, MapOf(<< <<"normal_function", 100>> >>),
                   MapOf(<< <<"kernel_core", 80>> >>), [num |-> 80, den |-> 1]),
       DetectInput(3, 300, MapOf(<< <<"hot_function", 300>> >>),
                   MapOf(<< <<"application", 300>> >>), [num |-> 10, den |-> 1]) >>

InitDetect ==
    /\ mode = "detect"
    /\ pc = "call"
    /\ \/ \E n \in 1..MaxDetectWindows : \E c \in [1..n -> DetectShapes] :
              timeWindowsData = [i \in 1..n |-> ShapeWindow(i - 1, c[i])]
       \/ timeWindowsData = TestDetectPatternsWindows
    /\ hmSamples = <<>> /\ windowSize = 1 /\ windows = <<>> /\ hmErr = ""
    /\ patterns = <<>> /\ files = NoFiles
    /\ ParseIdle
    /\ ClassIdle
    /\ OrchIdle

\* The call detectPatterns(windows) and its return, or its panic.
CallDetectPatterns ==
    /\ mode = "detect" /\ pc = "call"
    /\ patterns' = <<detectPatterns(timeWindowsData)>>
    /\ pc' = IF patterns'[1].panic THEN "panicked" ELSE "returned"
    /\ UNCHANGED <<mode, hmSamples, windowSize, windows, timeWindowsData, hmErr,
                   files, parseVars, classVars, orchVars>>

NextDetect == CallDetectPatterns

SpecDetect == InitDetect /\ [][NextDetect]_vars

----------------------------------------------------------------------------
(* GenerateReport *)

ReportFiles ==
    {"perf.folded", "flamegraph.pl", "flamegraph.svg", "perf-report.txt",
     "heatmap.html", "heatmap-data.json", "patterns.json",
     "summary.json", "summary.txt"}

\* Standard output grows by the lines ls.
Printed(r, ls) == [r EXCEPT !.stdout = @ \o ls]
Written(r, name) == [r EXCEPT !.files[name] = "new"]
FailedWrite(r, name) == [r EXCEPT !.files[name] = "failed"]
Returned(r, e) == [r EXCEPT !.err = e, !.returned = TRUE]

InitReport ==
    /\ mode = "report"
    /\ pc = "flamegraph"
    /\ \E flag \in BOOLEAN :
          report = <<[generateHeatmapFlag |-> flag,
                      numSamples |-> 0,          \* len(samples)
                      parseErr |-> "",           \* err of parsePerfScriptData
                      parsed |-> FALSE,          \* parsePerfScriptData was called
                      heatmapCalled |-> FALSE,
                      files |-> [f \in ReportFiles |-> "absent"],
                      stdout |-> <<>>,
                      err |-> "", returned |-> FALSE]>>
    /\ capture = <<>>
    /\ ParseIdle
    /\ ClassIdle
    /\ HeatIdle
    /\ FlagsIdle

\* Lines 46-48 and 78-130: generateFlamegraph.  perf script, the folded
\* stacks, flamegraph.pl (looked up, else downloaded) and flamegraph.svg;
\* `failing` is the step that fails.
GenerateFlamegraphStep ==
    /\ mode = "report" /\ pc = "flamegraph"
    /\ \E installed \in BOOLEAN :
       \E failing \in {"none", "perf script", "perf.folded", "download",
                       "flamegraph.pl", "flamegraph.svg"} :
          /\ failing = "download" => ~installed
          /\ failing \in {"perf script", "perf.folded"} => installed
          /\ LET r0 == Printed(report[1], <<"Generating flamegraph...",
                           "Running perf script to generate stack traces...">>)
                 r1 == Written(Printed(r0, <<"Processing stack traces...">>),
                               "perf.folded")
                 r2 == Printed(r1, <<"Checking for flamegraph.pl...">>)
                 r3 == IF installed THEN r2
                       ELSE Written(Printed(r2,
                                <<"flamegraph.pl not found, downloading...">>),
                                "flamegraph.pl")
                 r4 == Printed(r3, <<"Generating flamegraph visualization...">>)
                 r5 == Printed(r4, <<"Saving flamegraph to flamegraph.svg">>)
                 r6 == Printed(Written(r5, "flamegraph.svg"),
                               <<"Flamegraph generation complete!">>)
                 e == "error generating flamegraph"
             IN  report' =
                   << CASE failing = "perf script" -> Returned(r0, e)
                        [] failing = "perf.folded" ->
                              Returned(FailedWrite(Printed(r0,
                                  <<"Processing stack traces...">>), "perf.folded"), e)
                        [] failing = "download" ->
                              Returned(FailedWrite(Printed(r2,
                                  <<"flamegraph.pl not found, downloading...">>),
                                  "flamegraph.pl"), e)
                        [] failing = "flamegraph.pl" -> Returned(r4, e)
                        [] failing = "flamegraph.svg" ->
                              Returned(FailedWrite(r5, "flamegraph.svg"), e)
                        [] OTHER -> r6 >>
    /\ pc' = IF report'[1].returned THEN "done" ELSE "perfreport"
    /\ UNCHANGED <<mode, capture, parseVars, classVars, heatVars, flags>>

\* Lines 51-53 and 132-147: generatePerfReport.
GeneratePerfReportStep ==
    /\ mode = "report" /\ pc = "perfreport"
    /\ \E failing \in {"none", "perf report", "perf-report.txt"} :
          report' =
            << CASE failing = "perf report" ->
                      Returned(report[1], "error generating perf report")
                 [] failing = "perf-report.txt" ->
                      Returned(FailedWrite(report[1], "perf-report.txt"),
                               "error generating perf report")
                 [] OTHER -> Written(report[1], "perf-report.txt") >>
    /\ pc' = IF report'[1].returned THEN "done" ELSE "parse"
    /\ UNCHANGED <<mode, capture, parseVars, classVars, heatVars, flags>>

\* Lines 56-60 and 329-345: parsePerfScriptData.  perf script fails, or
\* ParsePerfScript returns an error, or n samples are parsed; on an error
\* GenerateReport prints a warning and goes on with no samples.
ParsePerfScriptDataStep ==
    /\ mode = "report" /\ pc = "parse"
    /\ LET r0 == Printed(report[1],
                     <<"Parsing perf script output for detailed analysis...">>)
           warning == <<"Warning: Could not parse perf script for advanced analysis">>
       IN  \/ \E e \in {"error running perf script", "error parsing perf script"} :
                 report' = <<Printed([r0 EXCEPT !.parseErr = e, !.numSamples = 0,
                                                !.parsed = TRUE], warning)>>
           \/ \E n \in 0..MaxReportSamples :
                 report' = <<Printed([r0 EXCEPT !.numSamples = n, !.parsed = TRUE],
                                     <<"Parsed %d samples from perf data">>)>>
    /\ pc' = "heatmap"
    /\ UNCHANGED <<mode, capture, parseVars, classVars, heatVars, flags>>

\* Lines 63-68: GenerateHeatmap is called and an error of it is printed as
\* a warning.  `failing` is the output file whose writing fails.
GenerateHeatmapStep ==
    /\ mode = "report" /\ pc = "heatmap"
    /\ report[1].generateHeatmapFlag /\ report[1].numSamples > 0
    /\ \E failing \in {"none", "heatmap.html", "heatmap-data.json", "patterns.json"} :
          LET r0 == Printed([report[1] EXCEPT !.heatmapCalled = TRUE],
                            <<"Generating interactive heatmap...">>)
              warning == <<"Warning: Could not generate heatmap">>
              r1 == Printed(Written(r0, "heatmap.html"),
                            <<"Interactive heatmap saved to: heatmap.html">>)
              r2 == Written(r1, "heatmap-data.json")
              r3 == Written(r2, "patterns.json")
          IN  report' =
                << CASE failing = "heatmap.html" ->
                          Printed(FailedWrite(r0, "heatmap.html"), warning)
                     [] failing = "heatmap-data.json" ->
                          Printed(FailedWrite(r1, "heatmap-data.json"), warning)
                     [] failing = "patterns.json" ->
                          Printed(FailedWrite(r2, "patterns.json"), warning)
                     [] OTHER -> r3 >>
    /\ pc' = "summary"
    /\ UNCHANGED <<mode, capture, parseVars, classVars, heatVars, flags>>

\* Line 63: no heatmap was asked for, or there are no samples.
SkipHeatmap ==
    /\ mode = "report" /\ pc = "heatmap"
    /\ ~(report[1].generateHeatmapFlag /\ report[1].numSamples > 0)
    /\ pc' = "summary"
    /\ UNCHANGED <<mode, report, capture, parseVars, classVars, heatVars, flags>>

\* Lines 71-75 and 149-190: generateSummary, and the return of GenerateReport.
GenerateSummaryStep ==
    /\ mode = "report" /\ pc = "summary"
    /\ \E failing \in {"none", "perf report", "summary.json", "summary.txt"} :
          LET e == "error generating summary"
              r1 == Written(report[1], "summary.json")
          IN  report' =
                << CASE failing = "perf report" -> Returned(report[1], e)
                     [] failing = "summary.json" ->
                          Returned(FailedWrite(report[1], "summary.json"), e)
                     [] failing = "summary.txt" ->
                          Returned(FailedWrite(r1, "summary.txt"), e)
                     [] OTHER -> Returned(Written(r1, "summary.txt"), "") >>
    /\ pc' = "done"
    /\ UNCHANGED <<mode, capture, parseVars, classVars, heatVars, flags>>

NextReport ==
    \/ GenerateFlamegraphStep
    \/ GeneratePerfReportStep
    \/ ParsePerfScriptDataStep
    \/ GenerateHeatmapStep
    \/ SkipHeatmap
    \/ GenerateSummaryStep

SpecReport == InitReport /\ [][NextReport]_vars

----------------------------------------------------------------------------
(* Capture, with a delayed start *)

NoErr == [msg |-> "", arg |-> 0]
Errorf(msg, arg) == [msg |-> msg, arg |-> arg]

\* os.Stat("/proc/<pid>") returns an error: the process does not exist.
StatFails_Never(alive) == FALSE
StatFails(alive) == ~alive

\* Line 342: elapsed >= config.DelayStart ends the delay loop.
DelayOver_Early(elapsed, delayStart) == elapsed + 1 >= delayStart
DelayOver(elapsed, delayStart) == elapsed >= delayStart

\* fmt.Printf / fmt.Println unless config.QuietMode.
Say(c, ls) == IF c.QuietMode THEN c ELSE [c EXCEPT !.stdout = @ \o ls]

\* return nil, fmt.Errorf(...)
Fail(c, msg, arg) == [c EXCEPT !.err = Errorf(msg, arg), !.result = "nil"]

TargetPool ==
    { [PID |-> 4242, ProcessName |-> ""], [PID |-> 0, ProcessName |-> "mysqld"],
      [PID |-> 0, ProcessName |-> ""] }

InitCapture ==
    /\ mode = "capture"
    /\ pc = "start"
    /\ \E t \in TargetPool, delay \in 0..MaxDelay, duration \in 0..MaxDuration,
          quiet \in BOOLEAN, alive \in BOOLEAN, perfData \in {"absent", "stale"} :
          capture = <<[PID |-> t.PID, ProcessName |-> t.ProcessName,
                       Duration |-> duration, DelayStart |-> delay,
                       QuietMode |-> quiet,
                       targetPID |-> 0,
                       elapsed |-> 0,            \* ticks received in the loop
                       alive |-> alive,          \* /proc/<pid> of the target exists
                       exitedAt |-> IF alive THEN "" ELSE "before",
                       loopChecks |-> 0,         \* os.Stat calls inside the loop
                       finalChecks |-> 0,        \* os.Stat calls of line 352
                       perfStarted |-> FALSE,    \* cmd.Run() of perf record
                       perfSleep |-> 0,          \* its "sleep" argument
                       perfData |-> perfData,    \* perf.data in the output directory
                       stdout |-> <<>>,
                       result |-> "none", err |-> NoErr]>>
    /\ report = <<>>
    /\ ParseIdle
    /\ ClassIdle
    /\ HeatIdle
    /\ FlagsIdle

\* The target process ends; nothing in Capture controls when.
ProcessExits ==
    /\ mode = "capture" /\ pc \in {"start", "delay", "final", "record"}
    /\ capture[1].alive
    /\ capture' = <<[capture[1] EXCEPT !.alive = FALSE, !.exitedAt = pc]>>
    /\ UNCHANGED <<mode, pc, report, parseVars, classVars, heatVars, flags>>

\* Lines 285-322: validation, the target PID, the output directory, and
\* the announcement of the delay.
CaptureStart ==
    /\ mode = "capture" /\ pc = "start"
    /\ LET c == capture[1]
       IN  \E found \in BOOLEAN, mkdir \in BOOLEAN :
             LET c1 == [c EXCEPT !.targetPID = IF c.PID > 0 THEN c.PID ELSE 4242]
                 c2 == IF c.PID > 0 THEN c1
                       ELSE Say(c1, <<"Found process '%s' with PID: %d">>)
                 c3 == IF c.DelayStart > 0
                       THEN Say(c2, <<"Waiting %d seconds before starting capture...">>)
                       ELSE c2
             IN  capture' =
                   << IF c.Duration <= 0
                      THEN Fail(c, "duration must be greater than 0", 0)
                      ELSE IF c.PID > 0 /\ StatFails(c.alive)
                      THEN Fail(c1, "process with PID %d does not exist", c.PID)
                      ELSE IF c.PID <= 0 /\ c.ProcessName # "" /\ ~found
                      THEN Fail(c, "could not find PID for process", 0)
                      ELSE IF c.PID <= 0 /\ c.ProcessName = ""
                      THEN Fail(c, "either PID or process name must be provided", 0)
                      ELSE IF ~mkdir
                      THEN Fail(c1, "error creating output directory", 0)
                      ELSE c3 >>
    /\ pc' = IF capture'[1].result = "nil" THEN "done"
             ELSE IF capture'[1].DelayStart > 0 THEN "delay" ELSE "final"
    /\ UNCHANGED <<mode, report, parseVars, classVars, heatVars, flags>>

\* Lines 328-345: one tick of the ticker and the body of the loop.
Tick ==
    /\ mode = "capture" /\ pc = "delay"
    /\ LET c == capture[1]
           elapsed == c.elapsed + 1
           c1 == [c EXCEPT !.elapsed = elapsed, !.loopChecks = @ + 1]
           c2 == IF elapsed % 5 = 0
                 THEN Say(c1, <<"  ... %d/%d seconds elapsed">>) ELSE c1
       IN  IF StatFails(c.alive)
           THEN /\ capture' = <<Fail(c1, "process terminated during delay period (after %d seconds)",
                                     elapsed)>>
                /\ pc' = "done"
           ELSE IF DelayOver(elapsed, c.DelayStart)
           THEN /\ capture' = <<Say(c2, <<"Starting capture now...">>)>>
                /\ pc' = "final"
           ELSE /\ capture' = <<c2>>
                /\ pc' = "delay"
    /\ UNCHANGED <<mode, report, parseVars, classVars, heatVars, flags>>

\* Lines 351-354: the final liveness check before capture.
FinalCheck ==
    /\ mode = "capture" /\ pc = "final"
    /\ LET c == [capture[1] EXCEPT !.finalChecks = @ + 1]
       IN  IF StatFails(c.alive)
           THEN /\ capture' = <<Fail(c, "process with PID %d no longer exists", c.targetPID)>>
                /\ pc' = "done"
           ELSE /\ capture' = <<Say(c, <<"Capturing CPU profile for %d seconds (PID: %d)...">>)>>
                /\ pc' = "record"
    /\ UNCHANGED <<mode, report, parseVars, classVars, heatVars, flags>>

\* Lines 357-414: perf record -g -p <pid> -- sleep <Duration> runs under a
\* timeout of Duration+5 seconds, and its outcome is judged.  `ran` is how
\* cmd.Run() ended and `wrote` whether this run wrote perf.data.
RunPerf ==
    /\ mode = "capture" /\ pc = "record"
    /\ \E ran \in {"ok", "failed", "timed out"}, wrote \in BOOLEAN :
          LET c == [capture[1] EXCEPT !.perfStarted = TRUE,
                                      !.perfSleep = capture[1].Duration,
                                      !.perfData = IF wrote THEN "fresh" ELSE @]
              exists == c.perfData # "absent"
              success == [c EXCEPT !.result = "result", !.err = NoErr]
          IN  capture' =
                << CASE ran = "timed out" ->
                          Fail(c, "perf command timed out after %d seconds", c.Duration + 5)
                     [] ran = "failed" /\ exists ->
                          Say(success, <<"Warning: perf had warnings but capture succeeded">>)
                     [] ran = "failed" /\ ~exists ->
                          [c EXCEPT !.result = "result",
                                    !.err = Errorf("error running perf", 0)]
                     [] ran = "ok" /\ ~exists ->
                          [c EXCEPT !.result = "result",
                                    !.err = Errorf("perf.data file not found", 0)]
                     [] OTHER -> Say(success, <<"Capture completed successfully.">>) >>
    /\ pc' = "done"
    /\ UNCHANGED <<mode, report, parseVars, classVars, heatVars, flags>>

NextCapture ==
    \/ ProcessExits
    \/ CaptureStart
    \/ Tick
    \/ FinalCheck
    \/ RunPerf

SpecCapture == InitCapture /\ [][NextCapture]_vars

\* The ticker delivers its next tick, and a started step of Capture ends.
SpecCaptureLive ==
    /\ SpecCapture
    /\ WF_vars(Tick)
    /\ WF_vars(CaptureStart) /\ WF_vars(FinalCheck) /\ WF_vars(RunPerf)

----------------------------------------------------------------------------
(* rootCmd.RunE: one run of the tool, from the system checks to the exit *)

RunFiles == ReportFiles \cup {"perf-output.txt"}

\* The targets PreRunE lets through: a PID or a process name.
RunTargetPool == {t \in TargetPool : t.PID > 0 \/ t.ProcessName # ""}

\* fmt.Println of main.go guarded by !quietMode.
SayUnlessQuiet(r, ls) == IF r.quietMode THEN r ELSE Printed(r, ls)

\* return fmt.Errorf(...) from RunE: the process exits with an error.
Exit(r, e) == [r EXCEPT !.exit = e]

InitRun ==
    /\ mode = "run"
    /\ pc = "system"
    /\ \E t \in RunTargetPool, delay \in 0..MaxDelay, duration \in 1..MaxDuration,
          quiet \in BOOLEAN, alive \in BOOLEAN, perfData \in {"absent", "stale"},
          flame \in BOOLEAN, heat \in BOOLEAN :
          /\ capture = <<[PID |-> t.PID, ProcessName |-> t.ProcessName,
                          Duration |-> duration, DelayStart |-> delay,
                          QuietMode |-> quiet,
                          targetPID |-> 0, elapsed |-> 0,
                          alive |-> alive,
                          exitedAt |-> IF alive THEN "" ELSE "before",
                          loopChecks |-> 0, finalChecks |-> 0,
                          perfStarted |-> FALSE, perfSleep |-> 0,
                          perfData |-> perfData,
                          stdout |-> <<>>,
                          result |-> "none", err |-> NoErr]>>
          /\ report = <<[generateFlamegraph |-> flame,   \* the flags of main.go
                         generateHeatmapFlag |-> heat,
                         quietMode |-> quiet,
                         numSamples |-> 0, parseErr |-> "", parsed |-> FALSE,
                         heatmapCalled |-> FALSE,
                         files |-> [f \in RunFiles |-> "absent"],
                         stdout |-> <<>>,         \* standard output of the process
                         err |-> "", returned |-> FALSE,
                         exit |-> ""]>>           \* "", "ok" or RunE's error
    /\ ParseIdle
    /\ ClassIdle
    /\ HeatIdle
    /\ FlagsIdle

\* main.go lines 56-97: DetectSystem, CheckPermissions, the output directory
\* and the CaptureConfig.  DetectSystem returns an error whenever perf is
\* not installed, so the installation branch of lines 62-67 is never taken.
SystemChecks ==
    /\ mode = "run" /\ pc = "system"
    /\ \E failing \in {"none", "error detecting system", "error checking permissions"} :
          IF failing = "none"
          THEN /\ mode' = "capture" /\ pc' = "start"
               /\ UNCHANGED report
          ELSE /\ mode' = "run" /\ pc' = "exit"
               /\ report' = <<Exit(report[1], failing)>>
    /\ UNCHANGED <<capture, parseVars, classVars, heatVars, flags>>

\* main.go lines 99-111: Capture has returned; its error ends the run, else
\* the analysis is chosen by the two flags.
AfterCapture ==
    /\ mode = "capture" /\ pc = "done" /\ report # <<>>
    /\ LET c == capture[1]
           r == [report[1] EXCEPT !.stdout = c.stdout]
       IN  IF c.err # NoErr
           THEN /\ report' = <<Exit(r, "error during capture")>>
                /\ mode' = "run" /\ pc' = "exit"
           ELSE IF r.generateFlamegraph \/ r.generateHeatmapFlag
           THEN /\ report' = <<SayUnlessQuiet(r, <<"Generating analysis reports...">>)>>
                /\ mode' = "report" /\ pc' = "flamegraph"
           ELSE /\ report' = <<r>>
                /\ mode' = "run" /\ pc' = "process"
    /\ UNCHANGED <<capture, parseVars, classVars, heatVars, flags>>

\* main.go lines 119-154: the closing messages, or in quiet mode the output
\* directory alone, and return nil.
Finish(r) ==
    LET analysis == r.generateFlamegraph \/ r.generateHeatmapFlag
        lines ==
            <<"", "Analysis complete. Results saved in: %s", "", "Generated files:",
              "   - perf.data: Raw perf data">>
            \o (IF analysis
                THEN <<"   - summary.json: Detailed analysis in JSON format",
                       "   - summary.txt: Human-readable analysis summary",
                       "   - perf-report.txt: Detailed perf report">>
                ELSE <<>>)
            \o (IF r.generateFlamegraph
                THEN <<"   - flamegraph.svg: Interactive flamegraph visualization",
                       "   - perf.folded: Folded stack traces">>
                ELSE <<>>)
            \o (IF r.generateHeatmapFlag
                THEN <<"   - heatmap.html: Interactive temporal heatmap",
                       "   - heatmap-data.json: Heatmap data in JSON format",
                       "   - patterns.json: Detected performance patterns and anomalies">>
                ELSE <<>>)
            \o (IF ~analysis
                THEN <<"   - perf-output.txt: Processed perf script output">>
                ELSE <<>>)
            \o <<"", "Tips:",
                 "   - Use --generate-flamegraph to visualize call stacks",
                 "   - Use --generate-heatmap to see performance over time",
                 "   - Use --delay-start to exclude warm-up periods",
                 "   - Combine flags for comprehensive analysis">>
    IN  Exit(IF r.quietMode THEN Printed(r, <<"finalOutputDir">>)
             ELSE Printed(r, lines), "ok")

\* main.go lines 112-154 and ProcessCapture (capture, lines 426-446): perf
\* script is run on perf.data and its output saved as perf-output.txt.
ProcessCaptureStep ==
    /\ mode = "run" /\ pc = "process"
    /\ \E failing \in {"none", "perf script", "perf-output.txt"} :
          report' =
            << CASE failing = "perf script" ->
                      Exit(report[1], "error processing capture")
                 [] failing = "perf-output.txt" ->
                      Exit(FailedWrite(report[1], "perf-output.txt"),
                           "error processing capture")
                 [] OTHER -> Finish(Written(report[1], "perf-output.txt")) >>
    /\ pc' = "exit"
    /\ UNCHANGED <<mode, capture, parseVars, classVars, heatVars, flags>>

\* main.go lines 109-111 and 119-154: GenerateReport has returned.
AfterReport ==
    /\ mode = "report" /\ pc = "done" /\ capture # <<>>
    /\ report' = << IF report[1].err # ""
                    THEN Exit(report[1], "error generating reports")
                    ELSE Finish(report[1]) >>
    /\ mode' = "run" /\ pc' = "exit"
    /\ UNCHANGED <<capture, parseVars, classVars, heatVars, flags>>

NextRun ==
    \/ SystemChecks
    \/ NextCapture
    \/ AfterCapture
    \/ ProcessCaptureStep
    \/ NextReport
    \/ AfterReport

SpecRun == InitRun /\ [][NextRun]_vars

----------------------------------------------------------------------------
(* rootCmd: the flags and their validation *)

\* Lines 164-165 and 175: the values of flags that are not given.
DefaultDuration == 30
DefaultProfileWindow == 0
DefaultHeatmapWindowSize == 10       \* 1.0 second, in tenths

\* strconv.Atoi(s) returns no error: an optional sign and decimal digits.
AtoiSucceeds(s) ==
    LET digits == IF Char(s, 1) \in {"+", "-"} THEN SubSeq(s, 2, Len(s)) ELSE s
    IN  AllIn(digits, Digit)

\* Lines 206-209 (and 84-87): profile-window, when positive, replaces duration.
EffectiveDuration_DurationOnly(duration, profileWindow) == duration
EffectiveDuration(duration, profileWindow) ==
    IF profileWindow > 0 THEN profileWindow ELSE duration

\* Lines 192-225: the error PreRunE returns, "" for nil.  The heatmap
\* window size is counted in tenths of a second.
PreRunError(f) ==
    LET effectiveDuration == EffectiveDuration(f.duration, f.profileWindow)
    IN  IF f.processName = "" /\ f.pid = 0
        THEN "either --process or --pid must be specified"
        ELSE IF f.processName # "" /\ AtoiSucceeds(f.processName)
        THEN "--process flag expects a process name, not a number"
        ELSE IF f.pid # 0 /\ f.pid < 1
        THEN "PID must be a positive number"
        ELSE IF effectiveDuration < 1
        THEN "duration or profile-window must be at least 1 second"
        ELSE IF f.delayStart < 0
        THEN "delay-start cannot be negative"
        ELSE IF f.heatmapWindowSize <= 0
        THEN "heatmap window size must be positive"
        ELSE IF f.heatmapWindowSize > 10 * effectiveDuration
        THEN "heatmap window size cannot be larger than capture duration"
        ELSE ""

ProcessNamePool == {"", "mysqld", "1234", "-5", "12ab"}
PidPool == {-1, 0, 4242}
FlagValues == -1..MaxFlagValue
HeatmapWindowSizePool ==
    {-10, 0, 1} \cup {10 * k + d : k \in 1..MaxFlagValue, d \in {0, 1}}

InitFlags ==
    /\ mode = "flags"
    /\ pc = "groups"
    /\ \E name \in ProcessNamePool, p \in PidPool,
          durationSet \in BOOLEAN, d \in FlagValues,
          profileWindowSet \in BOOLEAN, w \in FlagValues,
          delay \in FlagValues, size \in HeatmapWindowSizePool,
          version \in BOOLEAN :
          /\ ~durationSet => d = 0
          /\ ~profileWindowSet => w = 0
          /\ flags = <<[processName |-> name,
                        pid |-> p,
                        durationSet |-> durationSet,       \* --duration was given
                        duration |-> IF durationSet THEN d ELSE DefaultDuration,
                        profileWindowSet |-> profileWindowSet,
                        profileWindow |-> IF profileWindowSet THEN w
                                          ELSE DefaultProfileWindow,
                        delayStart |-> delay,
                        heatmapWindowSize |-> size,
                        showVersion |-> version,
                        groupErr |-> "",          \* error of the flag groups
                        preRunCalled |-> FALSE,
                        preRunErr |-> "",         \* error returned by PreRunE
                        exited |-> FALSE,         \* os.Exit(0) after the version
                        started |-> FALSE,        \* RunE was entered
                        configDuration |-> 0]>>   \* Duration handed to Capture
    /\ report = <<>> /\ capture = <<>>
    /\ ParseIdle
    /\ ClassIdle
    /\ HeatIdle

\* Lines 181-182: process and pid exclude each other, and so do duration
\* and profile-window; a violation ends the command before PreRunE.
ValidateFlagGroups ==
    /\ mode = "flags" /\ pc = "groups"
    /\ LET f == flags[1]
           clash == \/ f.processName # "" /\ f.pid # 0
                    \/ f.durationSet /\ f.profileWindowSet
       IN  IF clash
           THEN /\ flags' = <<[f EXCEPT !.groupErr = "flags are mutually exclusive"]>>
                /\ pc' = "exit"
           ELSE /\ flags' = flags
                /\ pc' = "prerun"
    /\ UNCHANGED <<mode, report, capture, parseVars, classVars, heatVars>>

\* Lines 185-226: the version is printed and the process exits, or the
\* flags are validated.
PreRunE ==
    /\ mode = "flags" /\ pc = "prerun"
    /\ LET f == [flags[1] EXCEPT !.preRunCalled = TRUE]
       IN  IF f.showVersion
           THEN /\ flags' = <<[f EXCEPT !.exited = TRUE]>>
                /\ pc' = "exit"
           ELSE /\ flags' = <<[f EXCEPT !.preRunErr = PreRunError(f)]>>
                /\ pc' = IF PreRunError(f) = "" THEN "run" ELSE "exit"
    /\ UNCHANGED <<mode, report, capture, parseVars, classVars, heatVars>>

\* Lines 55-97: RunE is entered after a PreRunE that returned nil, and
\* hands the effective duration to Capture.
RunE ==
    /\ mode = "flags" /\ pc = "run"
    /\ flags' = <<[flags[1] EXCEPT
                     !.started = TRUE,
                     !.configDuration = EffectiveDuration(flags[1].duration,
                                                          flags[1].profileWindow)]>>
    /\ pc' = "exit"
    /\ UNCHANGED <<mode, report, capture, parseVars, classVars, heatVars>>

NextFlags ==
    \/ ValidateFlagGroups
    \/ PreRunE
    \/ RunE

SpecFlags == InitFlags /\ [][NextFlags]_vars

----------------------------------------------------------------------------
(* parsePerfReport: the summary of the samples *)

\* A leaf that the classifier leaves fully unknown.
UnknownFrame == HeatFrame("jit_code", "[anon")

\* The stacks of the samples handed to parsePerfReport.
SummaryStacks ==
    { <<>>, <<LockFrame, KernelFrame>>, <<KernelFrame>>, <<UnknownFrame>> }

SummarySamplePool ==
    { [Command |-> "mysqld", PID |-> 1, TID |-> 1, CPU |-> 0,
       Timestamp |-> 0, Event |-> "cpu-clock", Stack |-> st] :
      st \in SummaryStacks }

\* Lines 276-293: the entry of a function is made on its first sample, with
\* the type of that sample's leaf, and counts every sample of the function.
FuncType(topFrame) ==
    IF topFrame.IsKernel THEN "kernel"
    ELSE IF topFrame.IsUserland THEN "userland" ELSE "unknown"

CountSample(fc, topFrame) ==
    LET key == topFrame.Symbol
    IN  IF key \in DOMAIN fc
        THEN [fc EXCEPT ![key].SelfSamples = @ + 1, ![key].TotalSamples = @ + 1]
        ELSE fc @@ (key :> [Name |-> key, Type |-> FuncType(topFrame),
                            TotalSamples |-> 1, SelfSamples |-> 1])

\* Lines 272-304: the loop over the samples, after samples 1..k.
RECURSIVE SummaryCounts(_, _)
SummaryCounts(ss, k) ==
    IF k = 0
    THEN [functionCounts |-> EmptyMap, kernelCount |-> 0, userlandCount |-> 0,
          unknownCount |-> 0]
    ELSE LET c == SummaryCounts(ss, k - 1)
             top == GetTopFrame(ss[k])
         IN  IF top = <<>> THEN c
             ELSE [functionCounts |-> CountSample(c.functionCounts, top[1]),
                   kernelCount   |-> c.kernelCount + (IF top[1].IsKernel THEN 1 ELSE 0),
                   userlandCount |-> c.userlandCount +
                                       (IF ~top[1].IsKernel /\ top[1].IsUserland
                                        THEN 1 ELSE 0),
                   unknownCount  |-> c.unknownCount +
                                       (IF ~top[1].IsKernel /\ ~top[1].IsUserland
                                        THEN 1 ELSE 0)]

\* Lines 315-323: the entries of the map are appended in the order Go ranges
\* over it and sorted by TotalSamples, largest first, by a sort that is not
\* stable: any arrangement that is non-increasing can come out.
SortedOrders(fc) ==
    LET n == Cardinality(DOMAIN fc)
    IN  { o \in [1..n -> DOMAIN fc] :
            /\ \A i, j \in 1..n : i # j => o[i] # o[j]
            /\ \A i, j \in 1..n :
                  i < j => fc[o[i]].TotalSamples >= fc[o[j]].TotalSamples }

\* Lines 253-326, with the order the sort left the functions in.
parsePerfReport(ss, order) ==
    LET n == Len(ss)
        c == SummaryCounts(ss, n)
    IN  IF n = 0
        THEN [TopFunctions |-> <<>>,
              Summary |-> [TotalSamples |-> 0, UserlandPercent |-> ZeroPct,
                           KernelPercent |-> ZeroPct, UnknownPercent |-> ZeroPct]]
        ELSE [TopFunctions |->
                 [i \in DOMAIN order |->
                     [Name |-> order[i],
                      Type |-> c.functionCounts[order[i]].Type,
                      Percentage |-> Pct(c.functionCounts[order[i]].SelfSamples, n),
                      TotalSamples |-> c.functionCounts[order[i]].TotalSamples,
                      SelfSamples |-> c.functionCounts[order[i]].SelfSamples]],
              Summary |-> [TotalSamples |-> n,
                           UserlandPercent |-> Pct(c.userlandCount, n),
                           KernelPercent |-> Pct(c.kernelCount, n),
                           UnknownPercent |-> Pct(c.unknownCount, n)]]

InitSummary ==
    /\ mode = "summary"
    /\ pc = "call"
    /\ \E ss \in UNION { [1..n -> SummarySamplePool] : n \in 0..MaxSummarySamples } :
          report = <<[samples |-> ss, analysis |-> <<>>]>>
    /\ capture = <<>>
    /\ ParseIdle
    /\ ClassIdle
    /\ HeatIdle
    /\ FlagsIdle

\* One call of parsePerfReport.
ParsePerfReport ==
    /\ mode = "summary" /\ pc = "call"
    /\ LET ss == report[1].samples
       IN  \E order \in SortedOrders(SummaryCounts(ss, Len(ss)).functionCounts) :
              report' = <<[report[1] EXCEPT !.analysis = <<parsePerfReport(ss, order)>>]>>
    /\ pc' = "done"
    /\ UNCHANGED <<mode, capture, parseVars, classVars, heatVars, flags>>

NextSummary == ParsePerfReport

SpecSummary == InitSummary /\ [][NextSummary]_vars

----------------------------------------------------------------------------
(* Properties of PartitionByTime and of the aggregation *)

Partitioned == mode = "heatmap" /\ pc \in {"aggregate", "detect"}

Timestamps == {hmSamples[j].Timestamp : j \in DOMAIN hmSamples}
MinTs == CHOOSE m \in Timestamps : \A t \in Timestamps : m <= t
MaxTs == CHOOSE m \in Timestamps : \A t \in Timestamps : t <= m

RECURSIVE TotalInWindows(_)
TotalInWindows(n) ==
    IF n = 0 THEN 0 ELSE TotalInWindows(n - 1) + Len(windows[n].Samples)

\* C8: for a non-empty sample sequence and a positive window size there are
\* exactly floor((max-min)/size)+1 windows; window i (from 0) starts at
\* min + i*size and ends one size later, so each window ends where the next
\* starts, and the windows reach from the smallest to beyond the largest
\* timestamp; windows without samples are present.
C8_WindowsCoverRange ==
    Partitioned =>
        LET n == Len(windows)
        IN  /\ n >= 1
            /\ (n - 1) * windowSize <= MaxTs - MinTs
            /\ MaxTs - MinTs < n * windowSize
            /\ \A i \in 1..n :
                  /\ windows[i].StartTime = MinTs + (i - 1) * windowSize
                  /\ windows[i].EndTime = windows[i].StartTime + windowSize
            /\ \A i \in 1..(n - 1) : windows[i].EndTime = windows[i + 1].StartTime
            /\ windows[1].StartTime = MinTs
            /\ windows[n].StartTime <= MaxTs /\ MaxTs <= windows[n].EndTime

\* C8: timestamps out of order, and a window in the middle without samples.
C8_Witness ==
    /\ Partitioned
    /\ Len(hmSamples) >= 2
    /\ hmSamples[1].Timestamp > hmSamples[2].Timestamp
    /\ Len(windows) >= 3
    /\ windows[2].Samples = <<>>

\* C9: window i (from 0) holds, in input order, exactly the samples with
\* floor((timestamp - min)/size) = i; the window sample counts add up to the
\* input sample count, and every sample lies inside its window's range.
C9_EverySampleInOneWindow ==
    Partitioned =>
        /\ \A i \in 1..Len(windows) :
              LET InWindow(s) ==
                      /\ (i - 1) * windowSize <= s.Timestamp - MinTs
                      /\ s.Timestamp - MinTs < i * windowSize
              IN  windows[i].Samples = SelectSeq(hmSamples, InWindow)
        /\ TotalInWindows(Len(windows)) = Len(hmSamples)
        /\ \A i \in 1..Len(windows) : \A j \in 1..Len(windows[i].Samples) :
              /\ windows[i].StartTime <= windows[i].Samples[j].Timestamp
              /\ windows[i].Samples[j].Timestamp <= windows[i].EndTime

\* C9: two samples of one window given latest first, and a later window.
C9_Witness ==
    /\ Partitioned
    /\ Len(windows) >= 2
    /\ Len(windows[1].Samples) = 2
    /\ windows[1].Samples[1].Timestamp > windows[1].Samples[2].Timestamp
    /\ Len(windows[2].Samples) = 1

\* C10: an aggregate counts the samples of its window, per thread id every
\* sample, and per function and per category the samples whose leaf frame
\* stack[0] has it; a sample without frames and the frames below the leaf
\* add to no function or category tally; without samples every percentage
\* is 0.
C10_WindowTallies ==
    (mode = "heatmap" /\ pc = "detect") =>
        \A i \in 1..Len(timeWindowsData) :
            LET d == timeWindowsData[i]
                ws == windows[i].Samples
                all == DOMAIN ws
                leaf == {j \in all : Len(ws[j].Stack) > 0}
            IN  /\ d.SampleCount = Cardinality(all)
                /\ DOMAIN d.ThreadCounts = {ws[j].TID : j \in all}
                /\ \A t \in DOMAIN d.ThreadCounts :
                      d.ThreadCounts[t] = Cardinality({j \in all : ws[j].TID = t})
                /\ DOMAIN d.FunctionCounts = {ws[j].Stack[1].Symbol : j \in leaf}
                /\ \A f \in DOMAIN d.FunctionCounts :
                      d.FunctionCounts[f] =
                          Cardinality({j \in leaf : ws[j].Stack[1].Symbol = f})
                /\ DOMAIN d.CategoryCounts = {ws[j].Stack[1].Type : j \in leaf}
                /\ \A c \in DOMAIN d.CategoryCounts :
                      d.CategoryCounts[c] =
                          Cardinality({j \in leaf : ws[j].Stack[1].Type = c})
                /\ d.SampleCount = 0 =>
                      /\ d.KernelPercent.num = 0
                      /\ d.UserlandPercent.num = 0
                      /\ d.TopFunctionPercent.num = 0

\* C10: a window of a sample without frames and a sample with two frames,
\* and a window without samples, both aggregated.
C10_Witness ==
    /\ mode = "heatmap" /\ pc = "detect"
    /\ Len(timeWindowsData) >= 2
    /\ timeWindowsData[1].SampleCount = 2
    /\ \E j \in 1..2 : Len(windows[1].Samples[j].Stack) = 0
    /\ \E j \in 1..2 : Len(windows[1].Samples[j].Stack) = 2
    /\ timeWindowsData[2].SampleCount = 0

\* The samples of window i with a leaf frame, by their place in the window.
Leaves(i) == {j \in DOMAIN windows[i].Samples : Len(windows[i].Samples[j].Stack) > 0}

\* C26: in every aggregate the kernel percentage counts the samples whose
\* leaf frame is a kernel frame and the userland percentage those whose
\* leaf frame is a userland frame and no kernel frame, frames below the
\* leaf counting for nothing; the two counts together never exceed
\* SampleCount, so each percentage lies in [0, 100] and so does their sum.
C26_KernelPlusUserlandAtMostAll ==
    (mode = "heatmap" /\ pc = "detect") =>
        \A i \in 1..Len(timeWindowsData) :
            LET d == timeWindowsData[i]
                ws == windows[i].Samples
                kernel == {j \in Leaves(i) : ws[j].Stack[1].IsKernel}
                userland == {j \in Leaves(i) : ws[j].Stack[1].IsUserland} \ kernel
                k == d.KernelPercent
                u == d.UserlandPercent
            IN  /\ Cardinality(kernel) + Cardinality(userland) <= d.SampleCount
                /\ k.den = u.den /\ k.den > 0
                /\ d.SampleCount > 0 =>
                      /\ k.den = d.SampleCount
                      /\ k.num = 100 * Cardinality(kernel)
                      /\ u.num = 100 * Cardinality(userland)
                /\ 0 <= k.num /\ k.num <= 100 * k.den
                /\ 0 <= u.num /\ u.num <= 100 * u.den
                /\ k.num + u.num <= 100 * k.den

\* C26: a window of three samples aggregated: one without frames, one whose
\* leaf is a kernel frame, one whose leaf is a userland frame above a
\* kernel frame.
C26_Witness ==
    /\ mode = "heatmap" /\ pc = "detect"
    /\ timeWindowsData[1].SampleCount = 3
    /\ timeWindowsData[1].KernelPercent = [num |-> 100, den |-> 3]
    /\ timeWindowsData[1].UserlandPercent = [num |-> 100, den |-> 3]
    /\ \E j \in Leaves(1) :
          /\ windows[1].Samples[j].Stack[1].IsUserland
          /\ Len(windows[1].Samples[j].Stack) = 2
          /\ windows[1].Samples[j].Stack[2].IsKernel

\* C27: in a window with a leaf frame TopFunction is a function of
\* FunctionCounts that no function out-tallies and TopFunctionPercent is
\* 100 * its tally / SampleCount, whichever function the iteration ends
\* on; in a window whose samples have no frame TopFunction is empty and
\* TopFunctionPercent is 0.
C27_TopFunctionHasMaxTally ==
    (mode = "heatmap" /\ pc = "detect") =>
        \A i \in 1..Len(timeWindowsData) :
            LET d == timeWindowsData[i]
                fc == d.FunctionCounts
            IN  IF Leaves(i) # {}
                THEN /\ d.TopFunction \in DOMAIN fc
                     /\ \A g \in DOMAIN fc : fc[g] <= fc[d.TopFunction]
                     /\ d.TopFunctionPercent =
                           [num |-> 100 * fc[d.TopFunction], den |-> d.SampleCount]
                ELSE /\ d.TopFunction = ""
                     /\ d.TopFunctionPercent.num = 0
                     /\ d.TopFunctionPercent.den > 0

\* C27: a window aggregated in which two functions are tied at the top,
\* and a second window whose only sample has no frame.
C27_Witness ==
    /\ mode = "heatmap" /\ pc = "detect"
    /\ Len(timeWindowsData) >= 2
    /\ timeWindowsData[1].SampleCount = 2
    /\ Cardinality(DOMAIN timeWindowsData[1].FunctionCounts) = 2
    /\ timeWindowsData[2].SampleCount = 1 /\ Leaves(2) = {}
    /\ timeWindowsData[2].TopFunction = ""

----------------------------------------------------------------------------
(* Properties of detectPatterns *)

Detected == patterns # <<>>
InSeq(x, seq) == \E j \in DOMAIN seq : seq[j] = x

\* The anomalies of one type reported for window number i (from 0).
AnomaliesOf(i, type) ==
    {j \in DOMAIN patterns[1].Anomalies :
        /\ patterns[1].Anomalies[j].WindowIndex = i
        /\ patterns[1].Anomalies[j].Type = type}

Flagged(i, list, type, cond) ==
    /\ InSeq(i, list) <=> cond
    /\ Cardinality({j \in DOMAIN list : list[j] = i}) = IF cond THEN 1 ELSE 0
    /\ Cardinality(AnomaliesOf(i, type)) = IF cond THEN 1 ELSE 0

\* C11: a window with n > 0 samples and lock-related tally L is listed as a
\* lock-contention window, with one lock_contention anomaly of severity
\* high and value 100*L/n, exactly when 2*L > n, for odd and even n.
C11_LockContentionAboveHalf ==
    Detected =>
        \A i \in DOMAIN timeWindowsData :
            LET n == timeWindowsData[i].SampleCount
                L == lockCount(timeWindowsData[i])
            IN  n > 0 =>
                  /\ Flagged(i - 1, patterns[1].LockContentionWindows,
                             "lock_contention", 2 * L > n)
                  /\ \A j \in AnomaliesOf(i - 1, "lock_contention") :
                        LET a == patterns[1].Anomalies[j]
                        IN  /\ a.Severity = "high"
                            /\ a.Value.num * n = 100 * L * a.Value.den

\* C11: a window at exactly 50% of an even count passed over, and a window
\* of an odd count above 50% flagged.
C11_Witness ==
    /\ Detected
    /\ \E i \in DOMAIN timeWindowsData :
          /\ timeWindowsData[i].SampleCount = 100
          /\ lockCount(timeWindowsData[i]) = 50
          /\ ~InSeq(i - 1, patterns[1].LockContentionWindows)
    /\ \E i \in DOMAIN timeWindowsData :
          /\ timeWindowsData[i].SampleCount = 3
          /\ lockCount(timeWindowsData[i]) = 2
          /\ InSeq(i - 1, patterns[1].LockContentionWindows)

\* The lock-related words the specification lists.
SpecLockWords == <<"mutex", "futex", "rwlock", "__lll_lock">>

\* C12: the lock-related sum of a window is the sum of the tallies of the
\* functions whose name contains mutex, futex, rwlock or __lll_lock, so a
\* function named mutex_lock is counted.
C12_MutexCounted ==
    Detected =>
        \A i \in DOMAIN timeWindowsData :
            LET fc == timeWindowsData[i].FunctionCounts
                n == timeWindowsData[i].SampleCount
                L == SumOver(fc, {fn \in DOMAIN fc :
                                    \E k \in DOMAIN SpecLockWords :
                                        Contains(fn, SpecLockWords[k])})
            IN  n > 0 => (InSeq(i - 1, patterns[1].LockContentionWindows) <=> 2 * L > n)

\* C13: a window with n samples and kernel_core tally K is listed as a
\* high-syscall window, with one high_syscall anomaly of severity medium
\* and the window's KernelPercent as value, exactly when 100*K > 70*n.
C13_HighSyscallAbove70 ==
    Detected =>
        \A i \in DOMAIN timeWindowsData :
            LET w == timeWindowsData[i]
                n == w.SampleCount
                K == IF "kernel_core" \in DOMAIN w.CategoryCounts
                     THEN w.CategoryCounts["kernel_core"] ELSE 0
            IN  /\ Flagged(i - 1, patterns[1].HighSyscallWindows,
                           "high_syscall", 100 * K > 70 * n)
                /\ \A j \in AnomaliesOf(i - 1, "high_syscall") :
                      LET a == patterns[1].Anomalies[j]
                      IN  a.Severity = "medium" /\ a.Value = w.KernelPercent

\* C13: of two windows of 100 samples the one with 70 kernel_core leaves
\* is passed over and the one with 71 is flagged.
C13_Witness ==
    /\ Detected
    /\ Len(timeWindowsData) = 2
    /\ timeWindowsData[1].SampleCount = 100
    /\ timeWindowsData[1].CategoryCounts["kernel_core"] = 70
    /\ timeWindowsData[2].SampleCount = 100
    /\ timeWindowsData[2].CategoryCounts["kernel_core"] = 71
    /\ patterns[1].HighSyscallWindows = <<1>>

SampleCounts == [i \in DOMAIN timeWindowsData |-> timeWindowsData[i].SampleCount]

\* C14: window i is listed as a CPU spike, with one cpu_spike anomaly of
\* severity medium and its sample count as value, exactly when its sample
\* count is more than 1.5 times the mean count of all windows; of the counts
\* 100, 100, 100, 300 only the last is a spike, and windows of one and the
\* same count, a single window and empty windows among them, have no spike.
C14_SpikeAboveOneAndAHalfMean ==
    Detected =>
        LET len == Len(timeWindowsData)
            total == TotalSamples(timeWindowsData, len)
        IN  /\ \A i \in DOMAIN timeWindowsData :
                  LET n == timeWindowsData[i].SampleCount
                  IN  /\ Flagged(i - 1, patterns[1].CPUSpikes, "cpu_spike",
                                 2 * n * len > 3 * total)
                      /\ \A j \in AnomaliesOf(i - 1, "cpu_spike") :
                            LET a == patterns[1].Anomalies[j]
                            IN  /\ a.Severity = "medium"
                                /\ a.Value.num = n * a.Value.den
            /\ SampleCounts = <<100, 100, 100, 300>> => patterns[1].CPUSpikes = <<3>>
            /\ (\A i \in DOMAIN SampleCounts : SampleCounts[i] = SampleCounts[1])
                  => patterns[1].CPUSpikes = <<>>

\* C14: the four windows of 100, 100, 100 and 300 samples.
C14_Witness ==
    /\ Detected
    /\ SampleCounts = <<100, 100, 100, 300>>
    /\ patterns[1].CPUSpikes = <<3>>

----------------------------------------------------------------------------
(* Properties of GenerateHeatmap as a whole *)

\* The order in which the three heuristics run on a window.
TypeRank(type) ==
    CASE type = "lock_contention" -> 1
      [] type = "high_syscall" -> 2
      [] type = "cpu_spike" -> 3

StrictlyIncreasing(list) ==
    \A j, k \in DOMAIN list : j < k => list[j] < list[k]

\* Window i is in the list exactly when there is one anomaly (i, type), and
\* there is never more than one.
ListAgrees(i, list, type) ==
    /\ InSeq(i, list) <=> Cardinality(AnomaliesOf(i, type)) = 1
    /\ Cardinality(AnomaliesOf(i, type)) <= 1

\* C28: in a pattern report window i is in the lock-contention, high-syscall
\* or CPU-spike list exactly when the anomaly list holds one anomaly of
\* that type for i; every anomaly is of one of the three types and of a
\* window handed in; each index list is strictly increasing; the anomaly
\* list is ordered by window index and within a window by lock_contention,
\* high_syscall, cpu_spike.
C28_ListsAgreeWithAnomalies ==
    (mode = "detect" /\ Detected /\ ~patterns[1].panic) =>
        LET p == patterns[1]
            A == p.Anomalies
        IN  /\ \A i \in 0..(Len(timeWindowsData) - 1) :
                  /\ ListAgrees(i, p.LockContentionWindows, "lock_contention")
                  /\ ListAgrees(i, p.HighSyscallWindows, "high_syscall")
                  /\ ListAgrees(i, p.CPUSpikes, "cpu_spike")
            /\ \A j \in DOMAIN A :
                  /\ A[j].Type \in {"lock_contention", "high_syscall", "cpu_spike"}
                  /\ A[j].WindowIndex \in 0..(Len(timeWindowsData) - 1)
            /\ Len(A) = Len(p.LockContentionWindows) + Len(p.HighSyscallWindows)
                          + Len(p.CPUSpikes)
            /\ StrictlyIncreasing(p.LockContentionWindows)
            /\ StrictlyIncreasing(p.HighSyscallWindows)
            /\ StrictlyIncreasing(p.CPUSpikes)
            /\ \A j, k \in DOMAIN A :
                  j < k =>
                     \/ A[j].WindowIndex < A[k].WindowIndex
                     \/ /\ A[j].WindowIndex = A[k].WindowIndex
                        /\ TypeRank(A[j].Type) < TypeRank(A[k].Type)

\* C28: a report in which the second window carries all three anomalies,
\* in the order lock_contention, high_syscall, cpu_spike.
C28_Witness ==
    /\ mode = "detect" /\ Detected /\ ~patterns[1].panic
    /\ patterns[1].LockContentionWindows = <<1>>
    /\ patterns[1].HighSyscallWindows = <<1>>
    /\ patterns[1].CPUSpikes = <<1>>
    /\ Len(patterns[1].Anomalies) = 3

\* C15: in the pipeline detectPatterns is handed at least one window, ends
\* without a panic, divides by the sample count of no window without
\* samples, and a window without samples is in none of the three index
\* lists and in no anomaly (stated where detectPatterns is called and
\* where it has returned).
C15_EmptyWindowNeverFlagged ==
    mode = "heatmap" =>
        /\ pc = "detect" => Len(timeWindowsData) > 0
        /\ pc = "panicked" => FALSE
        /\ pc = "write" =>
              /\ Detected
              /\ Len(timeWindowsData) > 0
              /\ ~patterns[1].panic
              /\ \A j \in DOMAIN patterns[1].Anomalies :
                    timeWindowsData[patterns[1].Anomalies[j].WindowIndex + 1].SampleCount > 0
              /\ \A i \in DOMAIN timeWindowsData :
                    timeWindowsData[i].SampleCount = 0 =>
                        /\ ~InSeq(i - 1, patterns[1].LockContentionWindows)
                        /\ ~InSeq(i - 1, patterns[1].HighSyscallWindows)
                        /\ ~InSeq(i - 1, patterns[1].CPUSpikes)

\* C15: a window without samples between two windows of which one is flagged.
C15_Witness ==
    /\ mode = "heatmap" /\ Detected
    /\ Len(timeWindowsData) = 3
    /\ timeWindowsData[2].SampleCount = 0
    /\ patterns[1].Anomalies # <<>>

\* The aggregate sequences the runs of GenerateHeatmap on the current
\* arguments can build: one per way of resolving the top-function ties.
Runs ==
    LET ws == PartitionByTime(hmSamples, windowSize)
    IN  { [i \in DOMAIN ws |-> WindowData(i - 1, ws[i], tops[i])] :
            tops \in TopChoices(ws) }

\* An aggregate sequence without the names of the top functions.
Counts(r) == [i \in DOMAIN r |-> [r[i] EXCEPT !.TopFunction = ""]]

\* The aggregates of the windows at hand with no top function named.
Canonical == [i \in DOMAIN windows |-> WindowData(i - 1, windows[i], "")]

C17_EmptyRejectedAtOnce ==
    (mode = "heatmap" /\ Len(hmSamples) = 0) =>
        /\ pc \in {"start", "done"}
        /\ pc = "done" => hmErr = "no samples to analyze"
        /\ windows = <<>> /\ timeWindowsData = <<>> /\ patterns = <<>>
        /\ files = UsedDir
        /\ PartitionByTime(hmSamples, windowSize) = <<>>

\* C17: the call without samples has returned, the file of an earlier run
\* still in the directory.
C17_Witness ==
    /\ mode = "heatmap" /\ Len(hmSamples) = 0
    /\ pc = "done"
    /\ hmErr # ""
    /\ files["heatmap.html"] = "old"

----------------------------------------------------------------------------
(* Properties of GenerateReport *)

\* C18: when a heatmap is asked for and the parsed sample sequence is empty
\* or parsing failed, GenerateReport returns an error and writes no summary.
C18_EmptyHeatmapInputSurfaced ==
    (mode = "report" /\ pc = "done" /\ report[1].generateHeatmapFlag
       /\ report[1].parsed /\ report[1].numSamples = 0) =>
        /\ report[1].err # ""
        /\ report[1].files["summary.json"] = "absent"
        /\ report[1].files["summary.txt"] = "absent"

----------------------------------------------------------------------------
(* Properties of Capture *)

\* C19: when the target process ends between the start of the delay and
\* the final liveness check, perf record is never started and Capture
\* returns no result and an error; ended while a tick of the delay loop was
\* still to come, the error is "process terminated during delay period"
\* with the number of ticks counted so far.
C19_ExitBeforeCaptureIsAnError ==
    (mode = "capture" /\ capture[1].exitedAt \in {"delay", "final"}) =>
        LET c == capture[1]
        IN  /\ ~c.perfStarted
            /\ pc \in {"delay", "final", "done"}
            /\ pc = "done" =>
                  /\ c.result = "nil"
                  /\ c.err.msg # ""
                  /\ c.exitedAt = "delay" =>
                        /\ c.err = Errorf("process terminated during delay period (after %d seconds)",
                                          c.elapsed)
                        /\ c.loopChecks = c.elapsed
                        /\ 1 <= c.elapsed /\ c.elapsed <= c.DelayStart
                  /\ c.exitedAt = "final" =>
                        c.err.msg = "process with PID %d no longer exists"

\* C19: the target ended after the first tick of a longer delay and the
\* second tick found it gone.
C19_Witness ==
    /\ mode = "capture" /\ pc = "done"
    /\ capture[1].exitedAt = "delay"
    /\ capture[1].DelayStart > 2
    /\ capture[1].elapsed = 2
    /\ capture[1].err.arg = 2
    /\ ~capture[1].perfStarted

CaptureCounts ==
    mode = "capture" =>
        LET c == capture[1]
        IN  /\ c.elapsed <= c.DelayStart
            /\ c.loopChecks = c.elapsed
            /\ c.finalChecks <= 1
            /\ pc = "final" => c.elapsed = c.DelayStart /\ c.finalChecks = 0
            /\ (pc = "record" \/ c.perfStarted) =>
                  /\ c.elapsed = c.DelayStart
                  /\ c.loopChecks = c.DelayStart
                  /\ c.finalChecks = 1
            /\ c.perfStarted => c.perfSleep = c.Duration
            /\ c.DelayStart = 0 => (c.elapsed = 0 /\ pc # "delay")

\* C20: perf record is started only after exactly DelayStart ticks, each
\* followed by one liveness check, and one more check after the loop, and
\* it runs for Duration seconds; with DelayStart = 0 no tick is waited for;
\* and the delay loop always comes to an end.
C20_DelayThenRecord ==
    /\ []CaptureCounts
    /\ (mode = "capture" /\ pc = "delay") ~> (pc # "delay")

\* C20: perf record started after a delay of several ticks on a target
\* that is still alive.
C20_Witness ==
    /\ mode = "capture"
    /\ capture[1].perfStarted
    /\ capture[1].alive
    /\ capture[1].DelayStart = MaxDelay
    /\ capture[1].elapsed = MaxDelay

----------------------------------------------------------------------------
(* Properties of a whole run *)

RunEnded == mode = "run" /\ pc = "exit"
RunSucceeded == RunEnded /\ report[1].exit = "ok"

\* C21: a successful run in quiet mode has written exactly one line to
\* standard output, the result directory, whichever analysis flags and
\* delay are set.
C21_QuietPrintsOnlyPath ==
    (RunSucceeded /\ report[1].quietMode) =>
        report[1].stdout = <<"finalOutputDir">>

\* C24: a successful run with --generate-heatmap and without
\* --generate-flamegraph leaves perf.data, perf-report.txt, the three
\* heatmap files and the two summary files, and the flamegraph step is
\* not run: no perf.folded, no flamegraph.svg, no flamegraph.pl, and no
\* run of this kind ends on a flamegraph error.
C24_HeatmapOnlySkipsFlamegraph ==
    (/\ report # <<>> /\ capture # <<>>
     /\ report[1].generateHeatmapFlag /\ ~report[1].generateFlamegraph)
    => LET r == report[1]
       IN  /\ \A f \in {"perf.folded", "flamegraph.pl", "flamegraph.svg"} :
                 r.files[f] = "absent"
           /\ r.err # "error generating flamegraph"
           /\ RunSucceeded =>
                 /\ capture[1].perfData # "absent"
                 /\ \A f \in {"perf-report.txt", "heatmap.html", "heatmap-data.json",
                              "patterns.json", "summary.json", "summary.txt"} :
                       r.files[f] = "new"

----------------------------------------------------------------------------
(* Properties of the flag validation *)

Validated == mode = "flags" /\ flags[1].preRunCalled /\ ~flags[1].showVersion

C23_BelowOneRejected ==
    (/\ mode = "flags"
     /\ \/ flags[1].profileWindowSet /\ flags[1].profileWindow < 1
        \/ flags[1].durationSet /\ flags[1].duration < 1)
    => ~flags[1].started

----------------------------------------------------------------------------
(* Properties of the parsed frames *)

\* The module and symbol of the frames the parser can build from its input
\* lines, and of the frames handed to the classifier directly.
FramePool ==
    { [Module |-> Scanned[l].frame[1].Module, Symbol |-> Scanned[l].frame[1].Symbol] :
        l \in {x \in LinePool : Scanned[x].kind = "other" /\ Scanned[x].stack} }
    \cup [Module : ModulePool, Symbol : SymbolPool]

\* What ClassifyFrame gives for each of them.
ClassifierTable == [f \in FramePool |-> ClassifyFrame(f)]

KernelTypes == {FrameTypeKernelCore, FrameTypeKernelDriver}

\* No triple of the classifier has both flags set, and it has the kernel
\* flag set exactly in the two kernel categories.
ClassifierExclusive ==
    \A f \in FramePool :
       /\ ~(ClassifierTable[f].IsKernel /\ ClassifierTable[f].IsUserland)
       /\ ClassifierTable[f].IsKernel <=> ClassifierTable[f].Type \in KernelTypes

\* The triple a frame carries is the classifier's, its two flags are not
\* both set, and it is a kernel frame exactly in the two kernel categories.
WellClassified(fr) ==
    /\ Triple(fr.Type, fr.IsKernel, fr.IsUserland)
          = ClassifierTable[[Module |-> fr.Module, Symbol |-> fr.Symbol]]
    /\ ~(fr.IsKernel /\ fr.IsUserland)
    /\ fr.IsKernel <=> fr.Type \in KernelTypes

\* C25: every frame of every sample built or returned by ParsePerfScript
\* carries the triple ClassifyFrame gives for its module and symbol,
\* isKernel and isUserland are never both true, and isKernel is true
\* exactly for kernel_core and kernel_driver; the same holds of every
\* triple the classifier gives.
C25_FramesCarryClassifierTriple ==
    mode = "parse" =>
        /\ \A k \in 1..Len(AllSamples) :
              \A j \in 1..Len(AllSamples[k].Stack) :
                 WellClassified(AllSamples[k].Stack[j])
        /\ \A k \in 1..Len(result.samples) :
              \A j \in 1..Len(result.samples[k].Stack) :
                 WellClassified(result.samples[k].Stack[j])
        /\ ClassifierExclusive

\* C25: the parser returned a sample whose stack holds a kernel frame and a
\* userland frame.
C25_Witness ==
    /\ mode = "parse" /\ pc = "done"
    /\ \E k \in 1..Len(result.samples) :
          \E i, j \in 1..Len(result.samples[k].Stack) :
             /\ result.samples[k].Stack[i].IsKernel
             /\ result.samples[k].Stack[j].IsUserland
    /\ \E f \in FramePool : ~ClassifierTable[f].IsKernel /\ ~ClassifierTable[f].IsUserland

----------------------------------------------------------------------------
(* Properties of the outcome of Capture *)

CaptureSucceeded ==
    /\ mode = "capture" /\ pc = "done"
    /\ capture[1].result = "result" /\ capture[1].err = NoErr

\* C29: Capture returns success only when the perf record it started has
\* ended and the perf.data in the output directory was written by that
\* run; a perf.data left by an earlier run never makes a failed run a
\* success.
C29_SuccessMeansFreshPerfData ==
    CaptureSucceeded =>
        /\ capture[1].perfStarted
        /\ capture[1].perfData = "fresh"

----------------------------------------------------------------------------
(* Properties of parsePerfReport *)

RECURSIVE SumOfTotalSamples(_, _)
SumOfTotalSamples(fs, k) ==
    IF k = 0 THEN 0 ELSE SumOfTotalSamples(fs, k - 1) + fs[k].TotalSamples

\* C30: parsePerfReport counts every sample in exactly one of kernel,
\* userland and unknown, so with at least one sample the three percentages
\* add up to 100; the sample counts of the functions add up to
\* TotalSamples; TopFunctions is in non-increasing order of sample count.
C30_EverySampleCountedOnce ==
    (mode = "summary" /\ pc = "done") =>
        LET a == report[1].analysis[1]
            n == a.Summary.TotalSamples
            fs == a.TopFunctions
        IN  /\ n = Len(report[1].samples)
            /\ n > 0 =>
                  /\ a.Summary.KernelPercent.den = n
                  /\ a.Summary.UserlandPercent.den = n
                  /\ a.Summary.UnknownPercent.den = n
                  /\ a.Summary.KernelPercent.num + a.Summary.UserlandPercent.num
                        + a.Summary.UnknownPercent.num = 100 * n
            /\ SumOfTotalSamples(fs, Len(fs)) = n
            /\ \A i, j \in DOMAIN fs : i < j => fs[i].TotalSamples >= fs[j].TotalSamples

====
